------------------------------ MODULE Spec2Model ------------------------------
(***************************************************************************)
(* Model of the Immo Eliza prediction backend (backend/app): the request   *)
(* schema (schemas.py), the artifact loader and the preprocess /           *)
(* predict_text pipeline (predict.py) and the HTTP handlers (app.py).      *)
(*                                                                         *)
(* Python strings are modelled as sequences of characters, so that strip,  *)
(* lower/upper, the regular-expression substitutions and the keyword       *)
(* matching are computed the way the code computes them.  A character is a *)
(* one-character TLA+ string; the two combining marks produced by the NFKD *)
(* decomposition are written by their Unicode names.  Values the code      *)
(* keeps as whole strings (canonical labels, dictionary keys, messages)    *)
(* are TLA+ strings; Str and Chars convert between the two views.          *)
(***************************************************************************)
EXTENDS Integers, Sequences, FiniteSets, TLC

(***************************************************************************)
(* Characters and strings                                                  *)
(***************************************************************************)

\* Python None, for a value that is otherwise a character sequence.
NoneC == <<"<None>">>

\* Python None / NaN, for a value that is otherwise a string or a number.
None == "<None>"

Range(f) == {f[i] : i \in DOMAIN f}

LowerAlpha ==
  <<"a","b","c","d","e","f","g","h","i","j","k","l","m",
    "n","o","p","q","r","s","t","u","v","w","x","y","z","è","é">>

UpperAlpha ==
  <<"A","B","C","D","E","F","G","H","I","J","K","L","M",
    "N","O","P","Q","R","S","T","U","V","W","X","Y","Z","È","É">>

Digits == {"0","1","2","3","4","5","6","7","8","9"}

\* The characters str.strip() removes and the regular expression \s matches.
Whitespace == {" ", "\t", "\n"}

IndexIn(seq, c) == CHOOSE i \in 1..Len(seq) : seq[i] = c

\* str.upper() and str.lower(), one character at a time.
UpperChar(c) == IF c \in Range(LowerAlpha) THEN UpperAlpha[IndexIn(LowerAlpha, c)] ELSE c

LowerChar(c) == IF c \in Range(UpperAlpha) THEN LowerAlpha[IndexIn(UpperAlpha, c)] ELSE c

str_upper(s) == [i \in 1..Len(s) |-> UpperChar(s[i])]

str_lower(s) == [i \in 1..Len(s) |-> LowerChar(s[i])]

RECURSIVE lstrip(_)
lstrip(s) == IF s # <<>> /\ Head(s) \in Whitespace THEN lstrip(Tail(s)) ELSE s

RECURSIVE rstrip(_)
rstrip(s) ==
  IF s # <<>> /\ s[Len(s)] \in Whitespace THEN rstrip(SubSeq(s, 1, Len(s) - 1)) ELSE s

\* str.strip()
str_strip(s) == rstrip(lstrip(s))

\* "".join(...): the string a character sequence spells.
RECURSIVE Str(_)
Str(s) == IF s = <<>> THEN "" ELSE Head(s) \o Str(Tail(s))

\* sep.join(parts), for character sequences.
RECURSIVE JoinWith(_, _)
JoinWith(sep, parts) ==
  IF parts = <<>> THEN <<>>
  ELSE IF Len(parts) = 1 THEN parts[1]
  ELSE parts[1] \o sep \o JoinWith(sep, Tail(parts))

\* needle in haystack, for character sequences.
Contains(haystack, needle) ==
  \E i \in 0..(Len(haystack) - Len(needle)) :
    SubSeq(haystack, i + 1, i + Len(needle)) = needle

\* unicodedata.normalize("NFKD", s): a precomposed letter becomes the base
\* letter followed by its combining mark.
Decompose(c) ==
  CASE c = "È" -> <<"E", "COMBINING GRAVE ACCENT">>
    [] c = "É" -> <<"E", "COMBINING ACUTE ACCENT">>
    [] c = "è" -> <<"e", "COMBINING GRAVE ACCENT">>
    [] c = "é" -> <<"e", "COMBINING ACUTE ACCENT">>
    [] OTHER -> <<c>>

RECURSIVE nfkd(_)
nfkd(s) == IF s = <<>> THEN <<>> ELSE Decompose(Head(s)) \o nfkd(Tail(s))

\* unicodedata.combining(ch) # 0
combining(c) == c \in {"COMBINING GRAVE ACCENT", "COMBINING ACUTE ACCENT"}


\* str(s) for a string constant, as the sequence of its characters.
StrTable ==
  ("" :> <<>>)
  @@ (" " :> <<" ">>)
  @@ (" Postcode " :> <<" ", "P", "o", "s", "t", "c", "o", "d", "e", " ">>)
  @@ (" YES " :> <<" ", "Y", "E", "S", " ">>)
  @@ (" invalid; treated as missing." :> <<" ", "i", "n", "v", "a", "l", "i", "d", ";", " ", "t", "r", "e", "a", "t", "e", "d", " ", "a", "s", " ", "m", "i", "s", "s", "i", "n", "g", ".">>)
  @@ (" | " :> <<" ", "|", " ">>)
  @@ ("-" :> <<"-">>)
  @@ ("0612" :> <<"0", "6", "1", "2">>)
  @@ ("1" :> <<"1">>)
  @@ ("1000" :> <<"1", "0", "0", "0">>)
  @@ ("2000" :> <<"2", "0", "0", "0">>)
  @@ ("4000" :> <<"4", "0", "0", "0">>)
  @@ ("900" :> <<"9", "0", "0">>)
  @@ ("9000" :> <<"9", "0", "0", "0">>)
  @@ ("ANTWERPEN" :> <<"A", "N", "T", "W", "E", "R", "P", "E", "N">>)
  @@ ("Antwerp" :> <<"A", "n", "t", "w", "e", "r", "p">>)
  @@ ("Antwerpen" :> <<"A", "n", "t", "w", "e", "r", "p", "e", "n">>)
  @@ ("Anvers" :> <<"A", "n", "v", "e", "r", "s">>)
  @@ ("Apartment" :> <<"A", "p", "a", "r", "t", "m", "e", "n", "t">>)
  @@ ("B-4000" :> <<"B", "-", "4", "0", "0", "0">>)
  @@ ("B-9000" :> <<"B", "-", "9", "0", "0", "0">>)
  @@ ("BRUSSEL" :> <<"B", "R", "U", "S", "S", "E", "L">>)
  @@ ("Brabant" :> <<"B", "r", "a", "b", "a", "n", "t">>)
  @@ ("Brabant wallon" :> <<"B", "r", "a", "b", "a", "n", "t", " ", "w", "a", "l", "l", "o", "n">>)
  @@ ("Brussel" :> <<"B", "r", "u", "s", "s", "e", "l">>)
  @@ ("Brussel (19 gemeenten)" :> <<"B", "r", "u", "s", "s", "e", "l", " ", "(", "1", "9", " ", "g", "e", "m", "e", "e", "n", "t", "e", "n", ")">>)
  @@ ("Brussels" :> <<"B", "r", "u", "s", "s", "e", "l", "s">>)
  @@ ("Bruxelles" :> <<"B", "r", "u", "x", "e", "l", "l", "e", "s">>)
  @@ ("Bruxelles-Capitale" :> <<"B", "r", "u", "x", "e", "l", "l", "e", "s", "-", "C", "a", "p", "i", "t", "a", "l", "e">>)
  @@ ("Bungalow" :> <<"B", "u", "n", "g", "a", "l", "o", "w">>)
  @@ ("Business" :> <<"B", "u", "s", "i", "n", "e", "s", "s">>)
  @@ ("Chalet" :> <<"C", "h", "a", "l", "e", "t">>)
  @@ ("Commercial" :> <<"C", "o", "m", "m", "e", "r", "c", "i", "a", "l">>)
  @@ ("Cottage" :> <<"C", "o", "t", "t", "a", "g", "e">>)
  @@ ("Development" :> <<"D", "e", "v", "e", "l", "o", "p", "m", "e", "n", "t">>)
  @@ ("Duplex" :> <<"D", "u", "p", "l", "e", "x">>)
  @@ ("Excellent" :> <<"E", "x", "c", "e", "l", "l", "e", "n", "t">>)
  @@ ("Flandre occidentale" :> <<"F", "l", "a", "n", "d", "r", "e", " ", "o", "c", "c", "i", "d", "e", "n", "t", "a", "l", "e">>)
  @@ ("Flandre-Orientale" :> <<"F", "l", "a", "n", "d", "r", "e", "-", "O", "r", "i", "e", "n", "t", "a", "l", "e">>)
  @@ ("Fully renovated" :> <<"F", "u", "l", "l", "y", " ", "r", "e", "n", "o", "v", "a", "t", "e", "d">>)
  @@ ("Garage" :> <<"G", "a", "r", "a", "g", "e">>)
  @@ ("Gemeente" :> <<"G", "e", "m", "e", "e", "n", "t", "e">>)
  @@ ("Gent" :> <<"G", "e", "n", "t">>)
  @@ ("Ground" :> <<"G", "r", "o", "u", "n", "d">>)
  @@ ("HENEGOUWEN" :> <<"H", "E", "N", "E", "G", "O", "U", "W", "E", "N">>)
  @@ ("Hainaut" :> <<"H", "a", "i", "n", "a", "u", "t">>)
  @@ ("House" :> <<"H", "o", "u", "s", "e">>)
  @@ ("LIMBURG" :> <<"L", "I", "M", "B", "U", "R", "G">>)
  @@ ("LIÈGE" :> <<"L", "I", "È", "G", "E">>)
  @@ ("LUIK" :> <<"L", "U", "I", "K">>)
  @@ ("LUXEMBURG" :> <<"L", "U", "X", "E", "M", "B", "U", "R", "G">>)
  @@ ("Land" :> <<"L", "a", "n", "d">>)
  @@ ("Limburg" :> <<"L", "i", "m", "b", "u", "r", "g">>)
  @@ ("Liège" :> <<"L", "i", "è", "g", "e">>)
  @@ ("Loft" :> <<"L", "o", "f", "t">>)
  @@ ("Luik" :> <<"L", "u", "i", "k">>)
  @@ ("Luxembourg" :> <<"L", "u", "x", "e", "m", "b", "o", "u", "r", "g">>)
  @@ ("Mansion" :> <<"M", "a", "n", "s", "i", "o", "n">>)
  @@ ("Master" :> <<"M", "a", "s", "t", "e", "r">>)
  @@ ("Mixed" :> <<"M", "i", "x", "e", "d">>)
  @@ ("NAMEN" :> <<"N", "A", "M", "E", "N">>)
  @@ ("Namur" :> <<"N", "a", "m", "u", "r">>)
  @@ ("New" :> <<"N", "e", "w">>)
  @@ ("Normal" :> <<"N", "o", "r", "m", "a", "l">>)
  @@ ("OOST-VLAANDEREN" :> <<"O", "O", "S", "T", "-", "V", "L", "A", "A", "N", "D", "E", "R", "E", "N">>)
  @@ ("Office" :> <<"O", "f", "f", "i", "c", "e">>)
  @@ ("Oost-Vlaanderen " :> <<"O", "o", "s", "t", "-", "V", "l", "a", "a", "n", "d", "e", "r", "e", "n", " ">>)
  @@ ("Oost.Vlaanderen" :> <<"O", "o", "s", "t", ".", "V", "l", "a", "a", "n", "d", "e", "r", "e", "n">>)
  @@ ("Penthouse" :> <<"P", "e", "n", "t", "h", "o", "u", "s", "e">>)
  @@ ("Provincie" :> <<"P", "r", "o", "v", "i", "n", "c", "i", "e">>)
  @@ ("Renovated" :> <<"R", "e", "n", "o", "v", "a", "t", "e", "d">>)
  @@ ("Residence" :> <<"R", "e", "s", "i", "d", "e", "n", "c", "e">>)
  @@ ("Région de Bruxelles-Capitale" :> <<"R", "é", "g", "i", "o", "n", " ", "d", "e", " ", "B", "r", "u", "x", "e", "l", "l", "e", "s", "-", "C", "a", "p", "i", "t", "a", "l", "e">>)
  @@ ("Student" :> <<"S", "t", "u", "d", "e", "n", "t">>)
  @@ ("Studio" :> <<"S", "t", "u", "d", "i", "o">>)
  @@ ("To be renovated" :> <<"T", "o", " ", "b", "e", " ", "r", "e", "n", "o", "v", "a", "t", "e", "d">>)
  @@ ("To demolish" :> <<"T", "o", " ", "d", "e", "m", "o", "l", "i", "s", "h">>)
  @@ ("To renovate" :> <<"T", "o", " ", "r", "e", "n", "o", "v", "a", "t", "e">>)
  @@ ("To restore" :> <<"T", "o", " ", "r", "e", "s", "t", "o", "r", "e">>)
  @@ ("Triplex" :> <<"T", "r", "i", "p", "l", "e", "x">>)
  @@ ("Under construction" :> <<"U", "n", "d", "e", "r", " ", "c", "o", "n", "s", "t", "r", "u", "c", "t", "i", "o", "n">>)
  @@ ("VLAAMS-BRABANT" :> <<"V", "L", "A", "A", "M", "S", "-", "B", "R", "A", "B", "A", "N", "T">>)
  @@ ("Villa" :> <<"V", "i", "l", "l", "a">>)
  @@ ("Vlaanderen" :> <<"V", "l", "a", "a", "n", "d", "e", "r", "e", "n">>)
  @@ ("WAALS-BRABANT" :> <<"W", "A", "A", "L", "S", "-", "B", "R", "A", "B", "A", "N", "T">>)
  @@ ("WEST-VLAANDEREN" :> <<"W", "E", "S", "T", "-", "V", "L", "A", "A", "N", "D", "E", "R", "E", "N">>)
  @@ ("Waals_Brabant" :> <<"W", "a", "a", "l", "s", "_", "B", "r", "a", "b", "a", "n", "t">>)
  @@ ("West Vlaanderen" :> <<"W", "e", "s", "t", " ", "V", "l", "a", "a", "n", "d", "e", "r", "e", "n">>)
  @@ ("YES" :> <<"Y", "E", "S">>)
  @@ ("\t" :> <<"\t">>)
  @@ ("brabant_flamand" :> <<"b", "r", "a", "b", "a", "n", "t", "_", "f", "l", "a", "m", "a", "n", "d">>)
  @@ ("castle" :> <<"c", "a", "s", "t", "l", "e">>)
  @@ ("garden" :> <<"g", "a", "r", "d", "e", "n">>)
  @@ ("garden invalid; treated as missing." :> <<"g", "a", "r", "d", "e", "n", " ", "i", "n", "v", "a", "l", "i", "d", ";", " ", "t", "r", "e", "a", "t", "e", "d", " ", "a", "s", " ", "m", "i", "s", "s", "i", "n", "g", ".">>)
  @@ ("garden invalid; treated as missing. | terrace invalid; treated as missing. | swimming_pool invalid; treated as missing. | property_type not known; treated as missing. | state not known; treated as missing. | postal_code not provided; using province only." :> <<"g", "a", "r", "d", "e", "n", " ", "i", "n", "v", "a", "l", "i", "d", ";", " ", "t", "r", "e", "a", "t", "e", "d", " ", "a", "s", " ", "m", "i", "s", "s", "i", "n", "g", ".", " ", "|", " ", "t", "e", "r", "r", "a", "c", "e", " ", "i", "n", "v", "a", "l", "i", "d", ";", " ", "t", "r", "e", "a", "t", "e", "d", " ", "a", "s", " ", "m", "i", "s", "s", "i", "n", "g", ".", " ", "|", " ", "s", "w", "i", "m", "m", "i", "n", "g", "_", "p", "o", "o", "l", " ", "i", "n", "v", "a", "l", "i", "d", ";", " ", "t", "r", "e", "a", "t", "e", "d", " ", "a", "s", " ", "m", "i", "s", "s", "i", "n", "g", ".", " ", "|", " ", "p", "r", "o", "p", "e", "r", "t", "y", "_", "t", "y", "p", "e", " ", "n", "o", "t", " ", "k", "n", "o", "w", "n", ";", " ", "t", "r", "e", "a", "t", "e", "d", " ", "a", "s", " ", "m", "i", "s", "s", "i", "n", "g", ".", " ", "|", " ", "s", "t", "a", "t", "e", " ", "n", "o", "t", " ", "k", "n", "o", "w", "n", ";", " ", "t", "r", "e", "a", "t", "e", "d", " ", "a", "s", " ", "m", "i", "s", "s", "i", "n", "g", ".", " ", "|", " ", "p", "o", "s", "t", "a", "l", "_", "c", "o", "d", "e", " ", "n", "o", "t", " ", "p", "r", "o", "v", "i", "d", "e", "d", ";", " ", "u", "s", "i", "n", "g", " ", "p", "r", "o", "v", "i", "n", "c", "e", " ", "o", "n", "l", "y", ".">>)
  @@ ("maybe" :> <<"m", "a", "y", "b", "e">>)
  @@ ("n/a" :> <<"n", "/", "a">>)
  @@ ("oost-vlaanderen" :> <<"o", "o", "s", "t", "-", "v", "l", "a", "a", "n", "d", "e", "r", "e", "n">>)
  @@ ("oost-vlaanderen " :> <<"o", "o", "s", "t", "-", "v", "l", "a", "a", "n", "d", "e", "r", "e", "n", " ">>)
  @@ ("postal" :> <<"p", "o", "s", "t", "a", "l">>)
  @@ ("postal_code not provided; using province only." :> <<"p", "o", "s", "t", "a", "l", "_", "c", "o", "d", "e", " ", "n", "o", "t", " ", "p", "r", "o", "v", "i", "d", "e", "d", ";", " ", "u", "s", "i", "n", "g", " ", "p", "r", "o", "v", "i", "n", "c", "e", " ", "o", "n", "l", "y", ".">>)
  @@ ("postcode" :> <<"p", "o", "s", "t", "c", "o", "d", "e">>)
  @@ ("property_type not known; treated as missing." :> <<"p", "r", "o", "p", "e", "r", "t", "y", "_", "t", "y", "p", "e", " ", "n", "o", "t", " ", "k", "n", "o", "w", "n", ";", " ", "t", "r", "e", "a", "t", "e", "d", " ", "a", "s", " ", "m", "i", "s", "s", "i", "n", "g", ".">>)
  @@ ("prov" :> <<"p", "r", "o", "v">>)
  @@ ("province" :> <<"p", "r", "o", "v", "i", "n", "c", "e">>)
  @@ ("province name" :> <<"p", "r", "o", "v", "i", "n", "c", "e", " ", "n", "a", "m", "e">>)
  @@ ("provincie" :> <<"p", "r", "o", "v", "i", "n", "c", "i", "e">>)
  @@ ("ruin" :> <<"r", "u", "i", "n">>)
  @@ ("state not known; treated as missing." :> <<"s", "t", "a", "t", "e", " ", "n", "o", "t", " ", "k", "n", "o", "w", "n", ";", " ", "t", "r", "e", "a", "t", "e", "d", " ", "a", "s", " ", "m", "i", "s", "s", "i", "n", "g", ".">>)
  @@ ("swimming_pool" :> <<"s", "w", "i", "m", "m", "i", "n", "g", "_", "p", "o", "o", "l">>)
  @@ ("swimming_pool invalid; treated as missing." :> <<"s", "w", "i", "m", "m", "i", "n", "g", "_", "p", "o", "o", "l", " ", "i", "n", "v", "a", "l", "i", "d", ";", " ", "t", "r", "e", "a", "t", "e", "d", " ", "a", "s", " ", "m", "i", "s", "s", "i", "n", "g", ".">>)
  @@ ("terrace" :> <<"t", "e", "r", "r", "a", "c", "e">>)
  @@ ("x" :> <<"x">>)
  @@ ("zip" :> <<"z", "i", "p">>)
  @@ ("zip code" :> <<"z", "i", "p", " ", "c", "o", "d", "e">>)
  @@ ("zipcode" :> <<"z", "i", "p", "c", "o", "d", "e">>)

Chars(s) == StrTable[s]

(***************************************************************************)
(* schemas.py: canonical values and alias tables                           *)
(***************************************************************************)

ALLOWED_PROPERTY_TYPES ==
  {"Apartment", "Residence", "Villa", "Ground", "Penthouse", "Duplex", "Mixed",
   "Studio", "Chalet", "Bungalow", "Cottage", "Master", "Loft", "Land", "Triplex",
   "Development", "Office", "Mansion", "Commercial", "Garage", "Student", "Business"}

ALLOWED_STATES ==
  {"New", "Normal", "Excellent", "To be renovated", "To renovate",
   "Fully renovated", "Under construction", "To restore", "To demolish"}

ALLOWED_PROVINCES ==
  {"ANTWERPEN", "OOST-VLAANDEREN", "WEST-VLAANDEREN", "LIMBURG", "VLAAMS-BRABANT",
   "WAALS-BRABANT", "HENEGOUWEN", "LUIK", "LUXEMBURG", "NAMEN", "BRUSSEL"}

PROPERTY_TYPE_MAP ==
  ("apt" :> "Apartment") @@ ("apartment" :> "Apartment") @@ ("res" :> "Residence")
  @@ ("resid" :> "Residence") @@ ("residence" :> "Residence") @@ ("house" :> "Residence")

STATE_MAP ==
  ("new" :> "New") @@ ("normal" :> "Normal") @@ ("excellent" :> "Excellent")
  @@ ("to be renovated" :> "To be renovated") @@ ("to renovate" :> "To renovate")
  @@ ("fully renovated" :> "Fully renovated")
  @@ ("under construction" :> "Under construction")
  @@ ("to restore" :> "To restore") @@ ("to demolish" :> "To demolish")
  @@ ("needs renovation" :> "To be renovated") @@ ("renovated" :> "Fully renovated")
  @@ ("construction" :> "Under construction")

PROVINCE_ALIASES ==
  ("ANTWERPEN" :> "ANTWERPEN") @@ ("OOSTVLAANDEREN" :> "OOST-VLAANDEREN")
  @@ ("WESTVLAANDEREN" :> "WEST-VLAANDEREN") @@ ("LIMBURG" :> "LIMBURG")
  @@ ("VLAAMSBRABANT" :> "VLAAMS-BRABANT") @@ ("WAALSBRABANT" :> "WAALS-BRABANT")
  @@ ("HENEGOUWEN" :> "HENEGOUWEN") @@ ("LUIK" :> "LUIK") @@ ("LUXEMBURG" :> "LUXEMBURG")
  @@ ("NAMEN" :> "NAMEN") @@ ("BRUSSEL" :> "BRUSSEL")
  @@ ("ANVERS" :> "ANTWERPEN") @@ ("FLANDREORIENTALE" :> "OOST-VLAANDEREN")
  @@ ("FLANDREOCCIDENTALE" :> "WEST-VLAANDEREN") @@ ("BRABANTFLAMAND" :> "VLAAMS-BRABANT")
  @@ ("BRABANTWALLON" :> "WAALS-BRABANT") @@ ("HAINAUT" :> "HENEGOUWEN")
  @@ ("LIEGE" :> "LUIK") @@ ("LUXEMBOURG" :> "LUXEMBURG") @@ ("NAMUR" :> "NAMEN")
  @@ ("BRUXELLES" :> "BRUSSEL")
  @@ ("BRUXELLESCAPITALE" :> "BRUSSEL") @@ ("REGIONDEBRUXELLESCAPITALE" :> "BRUSSEL")
  @@ ("REGIONBRUXELLESCAPITALE" :> "BRUSSEL")

\* dict.get(key): the value, or None.
dict_get(d, key) == IF key \in DOMAIN d THEN d[key] ELSE None

(***************************************************************************)
(* predict.py: configuration                                               *)
(***************************************************************************)

AMENITY_ALLOWED == {"yes", "no", "unknown"}

AMENITY_COLS == <<"garden", "terrace", "swimming_pool">>

CAT_COLS ==
  <<"garden", "terrace", "swimming_pool",
    "postal_code", "property_type", "state", "province", "region">>

REGION_MAP ==
  ("ANTWERPEN" :> "Flanders") @@ ("OOST-VLAANDEREN" :> "Flanders")
  @@ ("WEST-VLAANDEREN" :> "Flanders") @@ ("LIMBURG" :> "Flanders")
  @@ ("VLAAMS-BRABANT" :> "Flanders") @@ ("WAALS-BRABANT" :> "Wallonia")
  @@ ("HENEGOUWEN" :> "Wallonia") @@ ("LUIK" :> "Wallonia")
  @@ ("LUXEMBURG" :> "Wallonia") @@ ("NAMEN" :> "Wallonia")
  @@ ("BRUSSEL" :> "Brussels")

NUMERIC_COLS ==
  <<"build_year", "facades", "living_area", "number_rooms",
    "house_age", "is_new_build", "is_recent", "is_old", "build_decade">>

(***************************************************************************)
(* predict.py: normalizers                                                 *)
(***************************************************************************)

\* re.sub(r"[\s\-_\.']", "", s)
IsKeyPunct(c) == c \in Whitespace \cup {"-", "_", ".", "'"}

_norm_key(s) ==
  LET up == str_upper(str_strip(s))
      base == SelectSeq(nfkd(up), LAMBDA ch : ~combining(ch))
  IN  SelectSeq(base, LAMBDA ch : ~IsKeyPunct(ch))

\* The value of the first iteration a loop `for p in ALLOWED: if ...: canon =
\* p; break` stops at, given the values that pass its test; None if none.
first_match(found) == IF found = {} THEN None ELSE CHOOSE x \in found : TRUE

\* `canon` after the `if canon is None:` block.
or_else(canon, fallback) == IF canon # None THEN canon ELSE fallback

\* return canon if canon in ALLOWED else None
keep_allowed(canon, allowed) == IF canon \in allowed THEN canon ELSE None

\* province_of_key returning the alias key in place of the alias's label.
province_of_key_keeps_key(key) ==
  keep_allowed(
    or_else(IF key \in DOMAIN PROVINCE_ALIASES THEN key ELSE None,
            first_match({p \in ALLOWED_PROVINCES : Str(_norm_key(Chars(p))) = key})),
    ALLOWED_PROVINCES)

province_of_key(key) ==
  keep_allowed(
    or_else(dict_get(PROVINCE_ALIASES, key),
            first_match({p \in ALLOWED_PROVINCES : Str(_norm_key(Chars(p))) = key})),
    ALLOWED_PROVINCES)

_normalize_province(raw) ==
  IF raw = NoneC THEN None ELSE province_of_key(Str(_norm_key(raw)))

property_type_of_key(k) ==
  keep_allowed(
    or_else(dict_get(PROPERTY_TYPE_MAP, k),
            first_match({pt \in ALLOWED_PROPERTY_TYPES : k = Str(str_lower(Chars(pt)))})),
    ALLOWED_PROPERTY_TYPES)

property_type_of(s) ==
  IF s = <<>> THEN None ELSE property_type_of_key(Str(str_lower(s)))

_normalize_property_type(raw) ==
  IF raw = NoneC THEN None ELSE property_type_of(str_strip(raw))

state_of_key(k) ==
  keep_allowed(
    or_else(dict_get(STATE_MAP, k),
            first_match({st \in ALLOWED_STATES : k = Str(str_lower(Chars(st)))})),
    ALLOWED_STATES)

state_of(s) == IF s = <<>> THEN None ELSE state_of_key(Str(str_lower(s)))

_normalize_state(raw) == IF raw = NoneC THEN None ELSE state_of(str_strip(raw))

\* _normalize_amenity without the final membership test: a token outside
\* the domain is passed on instead of becoming None.
_normalize_amenity_passes_any(raw) ==
  IF raw = NoneC THEN None
  ELSE LET s0 == Str(str_lower(str_strip(raw)))
           s1 == IF s0 \in {"1", "true", "y"} THEN "yes" ELSE s0
           s2 == IF s1 \in {"0", "false", "n"} THEN "no" ELSE s1
       IN  IF s0 = "" THEN None ELSE s2

_normalize_amenity(raw) ==
  IF raw = NoneC THEN None
  ELSE LET s0 == Str(str_lower(str_strip(raw)))
           s1 == IF s0 \in {"1", "true", "y"} THEN "yes" ELSE s0
           s2 == IF s1 \in {"0", "false", "n"} THEN "no" ELSE s1
       IN  IF s0 = "" THEN None
           ELSE IF s2 \in AMENITY_ALLOWED THEN s2 ELSE None

\* re.sub(r"\D+", "", s)
only_digits(s) == SelectSeq(s, LAMBDA ch : ch \in Digits)

DigitValue(c) == IndexIn(<<"0","1","2","3","4","5","6","7","8","9">>, c) - 1

\* int(digits) for a non-empty run of decimal digits.
RECURSIVE int_of(_)
int_of(ds) ==
  IF ds = <<>> THEN 0 ELSE 10 * int_of(SubSeq(ds, 1, Len(ds) - 1)) + DigitValue(ds[Len(ds)])

\* _parse_postal_code without the 1000..9999 range test.
_parse_postal_code_no_range(raw) ==
  IF raw = NoneC THEN None
  ELSE LET s == str_strip(raw)
           digits == only_digits(s)
       IN  IF s = <<>> THEN None
           ELSE IF Len(digits) # 4 THEN None
           ELSE Str(digits)

_parse_postal_code(raw) ==
  IF raw = NoneC THEN None
  ELSE LET s == str_strip(raw)
           digits == only_digits(s)
       IN  IF s = <<>> THEN None
           ELSE IF Len(digits) # 4 THEN None
           ELSE IF int_of(digits) < 1000 \/ int_of(digits) > 9999 THEN None
           ELSE Str(digits)

\* clean = [x.strip() for x in lines if x and x.strip()]
\* None if not clean else " | ".join(clean)
_one_line_warning(lines) ==
  LET kept == SelectSeq(lines, LAMBDA x : x # <<>> /\ str_strip(x) # <<>>)
      clean == [i \in 1..Len(kept) |-> str_strip(kept[i])]
  IN  IF clean = <<>> THEN NoneC ELSE JoinWith(Chars(" | "), clean)

(***************************************************************************)
(* predict.py: the postal reference file and its loader                    *)
(***************************************************************************)

ENCODINGS == <<"utf-8-sig", "utf-8", "latin1", "cp1252">>

\* A reference file on disk: whether it exists, the encodings under which
\* pd.read_csv raises, and the parsed table (header and rows of cells; a
\* NoneC cell is an empty cell, read as NaN).
RefFile(exists, unreadable, header, rows) ==
  [exists |-> exists, unreadable |-> unreadable, header |-> header, rows |-> rows]

\* _pick_col: the first column whose lower-cased name contains a keyword.
_pick_col(cols, keys) ==
  LET hit(i) == \E k \in keys : Contains(str_lower(cols[i]), k)
  IN  IF \E i \in 1..Len(cols) : hit(i)
      THEN CHOOSE i \in 1..Len(cols) : hit(i) /\ \A j \in 1..(i - 1) : ~hit(j)
      ELSE 0

\* Series.str.extract(r"(\d{4})"): the first run of four digits, or NaN.
extract_4digits(s) ==
  LET at(i) == \A j \in i..(i + 3) : s[j] \in Digits
      starts == {i \in 1..(Len(s) - 3) : at(i)}
  IN  IF starts = {} THEN NoneC
      ELSE LET i == CHOOSE i \in starts : \A j \in starts : i <= j
           IN  SubSeq(s, i, i + 3)

\* str.zfill(4)
RECURSIVE zfill4(_)
zfill4(s) == IF Len(s) >= 4 THEN s ELSE zfill4(<<"0">> \o s)

\* The table built from the two picked columns (predict.py lines 147-158):
\* rows with an empty cell dropped, postcode extracted, province trimmed and
\* upper-cased, rows without a postcode dropped, first row per postcode kept.
postal_table(rows, pc_col, pr_col) ==
  LET full == SelectSeq(rows, LAMBDA r : r[pc_col] # NoneC /\ r[pr_col] # NoneC)
      coded == SelectSeq(full, LAMBDA r : extract_4digits(r[pc_col]) # NoneC)
      postcode(i) == Str(zfill4(extract_4digits(coded[i][pc_col])))
      province(i) == Str(str_upper(str_strip(coded[i][pr_col])))
      first(k) == CHOOSE i \in 1..Len(coded) :
                    postcode(i) = k /\ \A j \in 1..(i - 1) : postcode(j) # k
  IN  [k \in {postcode(i) : i \in 1..Len(coded)} |-> province(first(k))]

EmptyDict == [k \in {} |-> None]

\* `continue`: this encoding gave nothing.
Continue == [done |-> FALSE, dict |-> EmptyDict]

POSTCODE_KEYS == {Chars("postcode"), Chars("zip"), Chars("zipcode"), Chars("postal")}

PROVINCE_KEYS == {Chars("provincie"), Chars("province"), Chars("prov")}

\* Lines 144-158, given the two picked columns.
read_picked(file, pc_col, pr_col) ==
  IF pc_col = 0 \/ pr_col = 0 THEN Continue
  \* the same column picked twice: d[pc_col] is a frame, .str raises
  ELSE IF pc_col = pr_col THEN Continue
  ELSE [done |-> TRUE, dict |-> postal_table(file.rows, pc_col, pr_col)]

\* Lines 141-158, given the stripped column names.
read_columns(file, cols) ==
  read_picked(file, _pick_col(cols, POSTCODE_KEYS), _pick_col(cols, PROVINCE_KEYS))

\* One pass of the encoding loop: the dictionary, or "continue".
read_attempt(file, enc) ==
  IF enc \in file.unreadable THEN Continue
  ELSE read_columns(file, [i \in 1..Len(file.header) |-> str_strip(file.header[i])])

\* The encoding loop from ENCODINGS[i] on: the first dictionary returned, or
\* the empty one when every attempt fails.
RECURSIVE try_encodings(_, _)
returned_or_next(file, i, attempt) ==
  IF attempt.done THEN attempt.dict ELSE try_encodings(file, i + 1)

try_encodings(file, i) ==
  IF i > Len(ENCODINGS) THEN EmptyDict
  ELSE returned_or_next(file, i, read_attempt(file, ENCODINGS[i]))

_load_postal_lookup(file) ==
  IF ~file.exists THEN EmptyDict ELSE try_encodings(file, 1)

(***************************************************************************)
(* predict.py: the model artifact and load_artifacts                       *)
(***************************************************************************)

\* A fitted pipeline as joblib.load returns it: whether it has a
\* "preprocess" step, that step's transformers_ (each with its columns, a
\* list or something else), its "model" step, and the scalars predict may
\* return (in thousandths).
Artifact(has_pre, transformers, model_step, outputs) ==
  [has_preprocess |-> has_pre, transformers |-> transformers,
   model_step |-> model_step, outputs |-> outputs]

NoPipeline == Artifact(FALSE, <<>>, "<None>", {})

Columns(is_list, cols) == [is_list |-> is_list, columns |-> cols]

\* A model file on disk.
ModelFile(exists, artifact) == [exists |-> exists, artifact |-> artifact]

\* Exceptions, as type and str(e).
Exc(type, msg) == [type |-> type, msg |-> msg]

NoExc == Exc("<None>", "")

RECURSIVE dedup(_, _)
dedup(cols, seen) ==
  IF cols = <<>> THEN <<>>
  ELSE IF Head(cols) \in seen THEN dedup(Tail(cols), seen)
  ELSE <<Head(cols)>> \o dedup(Tail(cols), seen \cup {Head(cols)})

RECURSIVE extend_all(_)
extend_all(ts) ==
  IF ts = <<>> THEN <<>>
  ELSE (IF Head(ts).is_list THEN Head(ts).columns ELSE <<>>) \o extend_all(Tail(ts))

\* _infer_expected_columns, for a pipeline that has a "preprocess" step
\* (p.named_steps["preprocess"] raises KeyError otherwise).
_infer_expected_columns(p) == dedup(extend_all(p.transformers), {})

\* The module-level caches.
Cache(pipeline, cols, postal) ==
  [_pipeline |-> pipeline, _expected_cols |-> cols, _postal_to_province |-> postal]

\* load_artifacts that looks at the fallback path first.
load_artifacts_fallback_first(c, files) ==
  LET model_path == IF files.fallback.exists THEN files.fallback ELSE files.primary
      loaded == model_path.artifact
  IN  IF c._pipeline # NoPipeline THEN [cache |-> c, exc |-> NoExc]
      ELSE IF ~model_path.exists
        THEN [cache |-> c, exc |-> Exc("FileNotFoundError", "Missing model.")]
      ELSE IF ~loaded.has_preprocess
        THEN [cache |-> Cache(loaded, c._expected_cols, c._postal_to_province),
              exc |-> Exc("KeyError", "'preprocess'")]
      ELSE [cache |-> Cache(loaded, _infer_expected_columns(loaded),
                            _load_postal_lookup(files.ref)),
            exc |-> NoExc]

\* load_artifacts failing when the reference gives an empty index.
load_artifacts_needs_index(c, files) ==
  LET model_path == IF files.primary.exists THEN files.primary ELSE files.fallback
      loaded == model_path.artifact
  IN  IF c._pipeline # NoPipeline THEN [cache |-> c, exc |-> NoExc]
      ELSE IF ~model_path.exists
        THEN [cache |-> c, exc |-> Exc("FileNotFoundError", "Missing model.")]
      ELSE IF ~loaded.has_preprocess
        THEN [cache |-> Cache(loaded, c._expected_cols, c._postal_to_province),
              exc |-> Exc("KeyError", "'preprocess'")]
      ELSE IF DOMAIN _load_postal_lookup(files.ref) = {}
        THEN [cache |-> Cache(loaded, _infer_expected_columns(loaded), EmptyDict),
              exc |-> Exc("RuntimeError", "Postal reference not loaded.")]
      ELSE [cache |-> Cache(loaded, _infer_expected_columns(loaded),
                            _load_postal_lookup(files.ref)),
            exc |-> NoExc]

\* load_artifacts(): the caches it leaves and the exception it raises, if
\* any.  _pipeline is assigned before the columns are inferred and before
\* the reference is read.
load_artifacts(c, files) ==
  LET model_path == IF files.primary.exists THEN files.primary ELSE files.fallback
      loaded == model_path.artifact
  IN  IF c._pipeline # NoPipeline THEN [cache |-> c, exc |-> NoExc]
      ELSE IF ~model_path.exists
        THEN [cache |-> c, exc |-> Exc("FileNotFoundError", "Missing model.")]
      ELSE IF ~loaded.has_preprocess
        THEN [cache |-> Cache(loaded, c._expected_cols, c._postal_to_province),
              exc |-> Exc("KeyError", "'preprocess'")]
      ELSE [cache |-> Cache(loaded, _infer_expected_columns(loaded),
                            _load_postal_lookup(files.ref)),
            exc |-> NoExc]

(***************************************************************************)
(* schemas.py: PredictRequest                                              *)
(***************************************************************************)

OPTIONAL_FIELDS ==
  <<"garden", "terrace", "swimming_pool", "postal_code", "province",
    "property_type", "state">>

\* empty_to_none that trims but keeps the empty string.
empty_to_none_keeps_empty(v) == IF v = NoneC THEN NoneC ELSE str_strip(v)

\* field_validator empty_to_none (mode="before")
empty_to_none(v) ==
  IF v = NoneC THEN NoneC
  ELSE IF str_strip(v) = <<>> THEN NoneC ELSE str_strip(v)

MSG_4DIGITS == "postal_code must be exactly 4 digits (e.g., 9000)."

MSG_NO_LOCATION == "Either postal_code or province must be provided."

\* model_validator require_location (mode="after"): the message it raises,
\* or None.
require_location(r) ==
  IF r.postal_code = NoneC /\ r.province = NoneC THEN MSG_NO_LOCATION
  ELSE IF r.postal_code # NoneC /\ Len(only_digits(str_strip(r.postal_code))) # 4
    THEN MSG_4DIGITS
  ELSE None

MIN_BUILD_YEAR == 1800

\* The field validators, applied to every field of the payload.
coerced(payload) ==
  [f \in DOMAIN payload |->
     IF f \in Range(OPTIONAL_FIELDS) THEN empty_to_none(payload[f]) ELSE payload[f]]

Invalid(msg, r) == [ok |-> FALSE, msg |-> msg, req |-> r]

\* Field(ge=1800), build_year_not_in_future, then the model validator.
validated(r, today, location_msg) ==
  IF r.build_year < MIN_BUILD_YEAR
    THEN Invalid("Input should be greater than or equal to 1800", r)
  ELSE IF r.build_year > today THEN Invalid("build_year cannot be in the future.", r)
  ELSE IF location_msg # None THEN Invalid(location_msg, r)
  ELSE [ok |-> TRUE, msg |-> "", req |-> r]

validated_fields(r, today) == validated(r, today, require_location(r))

\* PredictRequest(**payload): the validated request, or the validation
\* error.  The model validator runs only when every field validated.
validate(payload, today) == validated_fields(coerced(payload), today)

(***************************************************************************)
(* predict.py: preprocess                                                  *)
(***************************************************************************)

\* Cell values of the working record and of the feature frame: a string, a
\* number, None, or NaN.
PyStr(s) == <<"str", s>>

PyNum(n) == <<"num", n>>

PyNone == <<"None">>

NaN == <<"nan">>

\* A string-or-None result of a normalizer, as a cell value.
Cell(s) == IF s = None THEN PyNone ELSE PyStr(s)

MSG_NEED_LOCATION ==
  "You must provide either a valid postal_code or a recognizable province."

MSG_NO_REFERENCE == "Postal reference not loaded; cannot validate postal_code."

NOTE_PROVINCE_ONLY == "postal_code not provided; using province only."

\* f"{col} invalid; treated as missing."
amenity_note(col) == Chars(col) \o Chars(" invalid; treated as missing.")

\* f"postal_code {pc} not found in reference file."
msg_not_found(pc) == "postal_code " \o pc \o " not found in reference file."

\* f"postal_code {pc} belongs to province {prov_ref}, but you sent {prov_norm}."
msg_mismatch(pc, prov_ref, prov_norm) ==
  "postal_code " \o pc \o " belongs to province " \o prov_ref
    \o ", but you sent " \o prov_norm \o "."

\* soft_warnings with the two optional categoricals checked before the
\* amenity loop.
soft_warnings_amenities_last(req) ==
  LET amenity(i) ==
        IF req[AMENITY_COLS[i]] # NoneC /\ _normalize_amenity(req[AMENITY_COLS[i]]) = None
        THEN <<amenity_note(AMENITY_COLS[i])>> ELSE <<>>
      ptype == IF req.property_type # NoneC /\ _normalize_property_type(req.property_type) = None
               THEN <<Chars("property_type not known; treated as missing.")>> ELSE <<>>
      state == IF req.state # NoneC /\ _normalize_state(req.state) = None
               THEN <<Chars("state not known; treated as missing.")>> ELSE <<>>
  IN  ptype \o state \o amenity(1) \o amenity(2) \o amenity(3)

\* Lines 361-380: the warnings of the amenity loop and of the two optional
\* categoricals, in the order they are appended.
soft_warnings(req) ==
  LET amenity(i) ==
        IF req[AMENITY_COLS[i]] # NoneC /\ _normalize_amenity(req[AMENITY_COLS[i]]) = None
        THEN <<amenity_note(AMENITY_COLS[i])>> ELSE <<>>
      ptype == IF req.property_type # NoneC /\ _normalize_property_type(req.property_type) = None
               THEN <<Chars("property_type not known; treated as missing.")>> ELSE <<>>
      state == IF req.state # NoneC /\ _normalize_state(req.state) = None
               THEN <<Chars("state not known; treated as missing.")>> ELSE <<>>
  IN  amenity(1) \o amenity(2) \o amenity(3) \o ptype \o state

\* What the location policy leaves: the exception raised, or the province,
\* the postal code and the notes appended to the warnings.
Located(province, postal_code, notes) ==
  [exc |-> NoExc, province |-> province, postal_code |-> postal_code, notes |-> notes]

Failed(e) == [exc |-> e, province |-> None, postal_code |-> None, notes |-> <<>>]

\* The location policy with one of its steps left out:
\*   "no_province_check"  a province-only request is not required to have a
\*                        recognizable province;
\*   "no_note"            the province-only note is not appended;
\*   "raw_postal_code"    data["postal_code"] keeps the string that was sent.
location_without_parsed(step, index, pc_raw, pc, prov_norm) ==
  IF pc_raw = NoneC
  THEN IF prov_norm = None /\ step # "no_province_check"
         THEN Failed(Exc("ValueError", MSG_NEED_LOCATION))
       ELSE Located(prov_norm, None,
                    IF step = "no_note" THEN <<>>
                    ELSE <<Chars("postal_code not provided; using province only.")>>)
  ELSE IF pc = None THEN Failed(Exc("ValueError", MSG_4DIGITS))
  ELSE IF DOMAIN index = {} THEN Failed(Exc("RuntimeError", MSG_NO_REFERENCE))
  ELSE IF pc \notin DOMAIN index THEN Failed(Exc("ValueError", msg_not_found(pc)))
  ELSE IF prov_norm # None /\ prov_norm # index[pc]
    THEN Failed(Exc("ValueError", msg_mismatch(pc, index[pc], prov_norm)))
  ELSE Located(index[pc], IF step = "raw_postal_code" THEN Str(pc_raw) ELSE pc, <<>>)

location_without(step, req, index) ==
  location_without_parsed(step, index, req.postal_code,
                          _parse_postal_code(req.postal_code),
                          _normalize_province(req.province))

location_no_province_check(req, index) == location_without("no_province_check", req, index)

location_no_note(req, index) == location_without("no_note", req, index)

location_raw_postal_code(req, index) == location_without("raw_postal_code", req, index)

\* The location policy with the empty-index check made before the format
\* check of the postal code.
location_parsed_index_first(index, pc_raw, pc, prov_norm) ==
  IF pc_raw = NoneC
  THEN IF prov_norm = None THEN Failed(Exc("ValueError", MSG_NEED_LOCATION))
       ELSE Located(prov_norm, None,
                    <<Chars("postal_code not provided; using province only.")>>)
  ELSE IF DOMAIN index = {} THEN Failed(Exc("RuntimeError", MSG_NO_REFERENCE))
  ELSE IF pc = None THEN Failed(Exc("ValueError", MSG_4DIGITS))
  ELSE IF pc \notin DOMAIN index THEN Failed(Exc("ValueError", msg_not_found(pc)))
  ELSE IF prov_norm # None /\ prov_norm # index[pc]
    THEN Failed(Exc("ValueError", msg_mismatch(pc, index[pc], prov_norm)))
  ELSE Located(index[pc], pc, <<>>)

\* Lines 389-416, given the parsed postal code and the normalized province.
location_parsed(index, pc_raw, pc, prov_norm) ==
  IF pc_raw = NoneC
  THEN IF prov_norm = None THEN Failed(Exc("ValueError", MSG_NEED_LOCATION))
       ELSE Located(prov_norm, None,
                    <<Chars("postal_code not provided; using province only.")>>)
  ELSE IF pc = None THEN Failed(Exc("ValueError", MSG_4DIGITS))
  ELSE IF DOMAIN index = {} THEN Failed(Exc("RuntimeError", MSG_NO_REFERENCE))
  ELSE IF pc \notin DOMAIN index THEN Failed(Exc("ValueError", msg_not_found(pc)))
  ELSE IF prov_norm # None /\ prov_norm # index[pc]
    THEN Failed(Exc("ValueError", msg_mismatch(pc, index[pc], prov_norm)))
  ELSE Located(index[pc], pc, <<>>)

\* Lines 382-420: the location policy.  The exception raised, or the
\* resolved province and postal code and the note appended.
location(req, index) ==
  location_parsed(index, req.postal_code, _parse_postal_code(req.postal_code),
                  _normalize_province(req.province))

\* data_of with the region looked up for the province the request sent, not
\* for the province the location policy resolved.
data_of_region_of_sent(req, loc, age) ==
  [build_year |-> PyNum(req.build_year),
   living_area |-> PyNum(req.living_area),
   number_rooms |-> PyNum(req.number_rooms),
   facades |-> PyNum(req.facades),
   garden |-> Cell(_normalize_amenity(req.garden)),
   terrace |-> Cell(_normalize_amenity(req.terrace)),
   swimming_pool |-> Cell(_normalize_amenity(req.swimming_pool)),
   postal_code |-> Cell(loc.postal_code),
   province |-> Cell(loc.province),
   property_type |-> Cell(_normalize_property_type(req.property_type)),
   state |-> Cell(_normalize_state(req.state)),
   region |-> IF _normalize_province(req.province) # None
              THEN Cell(dict_get(REGION_MAP, _normalize_province(req.province)))
              ELSE PyNone,
   house_age |-> IF age < 0 THEN NaN ELSE PyNum(age),
   is_new_build |-> IF age >= 0 /\ age <= 5 THEN PyNum(1) ELSE NaN,
   is_recent |-> IF age >= 0 /\ age <= 20 THEN PyNum(1) ELSE NaN,
   is_old |-> IF age >= 0 /\ age >= 50 THEN PyNum(1) ELSE NaN,
   build_decade |-> PyNum((req.build_year \div 10) * 10)]

\* Lines 358-433: `data` before the categorical defaults, given the age
\* now - build_year.
data_of(req, loc, age) ==
  [build_year |-> PyNum(req.build_year),
   living_area |-> PyNum(req.living_area),
   number_rooms |-> PyNum(req.number_rooms),
   facades |-> PyNum(req.facades),
   garden |-> Cell(_normalize_amenity(req.garden)),
   terrace |-> Cell(_normalize_amenity(req.terrace)),
   swimming_pool |-> Cell(_normalize_amenity(req.swimming_pool)),
   postal_code |-> Cell(loc.postal_code),
   province |-> Cell(loc.province),
   property_type |-> Cell(_normalize_property_type(req.property_type)),
   state |-> Cell(_normalize_state(req.state)),
   region |-> IF loc.province \notin {None, ""}
              THEN Cell(dict_get(REGION_MAP, loc.province)) ELSE PyNone,
   house_age |-> IF age < 0 THEN NaN ELSE PyNum(age),
   is_new_build |-> IF age >= 0 /\ age <= 5 THEN PyNum(1) ELSE NaN,
   is_recent |-> IF age >= 0 /\ age <= 20 THEN PyNum(1) ELSE NaN,
   is_old |-> IF age >= 0 /\ age >= 50 THEN PyNum(1) ELSE NaN,
   build_decade |-> PyNum((req.build_year \div 10) * 10)]

\* The record without the defaults of lines 435-438.
without_defaults(data) == data

\* Lines 435-438: a categorical column that is None becomes "unknown".
with_defaults(data) ==
  [c \in DOMAIN data |->
     IF c \in Range(CAT_COLS) /\ data[c] = PyNone THEN PyStr("unknown") ELSE data[c]]

\* record with a negative age taken as 0 instead of missing.
record_clamped_age(req, loc, now) ==
  with_defaults(data_of(req, loc, IF now < req.build_year THEN 0 ELSE now - req.build_year))

\* Lines 358-438: the working record `data` after the categorical defaults.
record(req, loc, now) == with_defaults(data_of(req, loc, now - req.build_year))

\* pd.to_numeric(value, errors="coerce").  The numeric columns of the record
\* hold numbers or NaN only (the schema types them, the rest is computed), so
\* the only strings that can reach this are those of a categorical column
\* that an artifact also lists as numeric; such a label does not parse.
to_numeric(v) == IF v[1] = "num" THEN v ELSE NaN

\* align without the reindex of line 442: the expected columns the record
\* has, and no column for the others.
align_without_reindex(data, expected_cols) ==
  LET kept == SelectSeq(expected_cols, LAMBDA c : c \in DOMAIN data)
  IN  [i \in 1..Len(kept) |-> <<kept[i], data[kept[i]]>>]

\* Lines 440-448: the one-row frame, as the list of (column, value) in the
\* order of _expected_cols.
align(data, expected_cols) ==
  LET reindexed(c) == IF c \in DOMAIN data THEN data[c] ELSE NaN
      masked(c) == IF reindexed(c) = PyNone THEN NaN ELSE reindexed(c)
      value(c) == IF c \in Range(NUMERIC_COLS) THEN to_numeric(masked(c)) ELSE masked(c)
  IN  [i \in 1..Len(expected_cols) |-> <<expected_cols[i], value(expected_cols[i])>>]

NoFrame == <<>>

\* preprocess raising e and dropping the postal index on its way out.
Raised_drops_index(cache, e) ==
  [cache |-> Cache(cache._pipeline, cache._expected_cols, EmptyDict),
   exc |-> e, X |-> NoFrame, warning |-> NoneC]

\* preprocess raising e.
Raised(cache, e) == [cache |-> cache, exc |-> e, X |-> NoFrame, warning |-> NoneC]

\* Lines 361-450, given what the location policy left.
preprocess_located(cache, loc, req, now) ==
  IF loc.exc # NoExc THEN Raised(cache, loc.exc)
  ELSE [cache |-> cache, exc |-> NoExc,
        X |-> align(record(req, loc, now), cache._expected_cols),
        warning |-> _one_line_warning(soft_warnings(req) \o loc.notes)]

\* Lines 355-450, given what load_artifacts left.
preprocess_loaded(L, req, now) ==
  IF L.exc # NoExc THEN Raised(L.cache, L.exc)
  ELSE preprocess_located(L.cache, location(req, L.cache._postal_to_province), req, now)

\* preprocess with the soft validation made hard: a value it would only warn
\* about raises instead.
soft_raises(L, req, now, soft) ==
  IF L.exc # NoExc THEN Raised(L.cache, L.exc)
  ELSE IF soft # <<>> THEN Raised(L.cache, Exc("ValueError", Str(soft[1])))
  ELSE preprocess_loaded(L, req, now)

preprocess_soft_raises(c, files, req, now) ==
  soft_raises(load_artifacts(c, files), req, now, soft_warnings(req))

\* preprocess(req): the caches it leaves, and the exception it raises or
\* the (X, warning line) it returns.
preprocess(c, files, req, now) == preprocess_loaded(load_artifacts(c, files), req, now)

(***************************************************************************)
(* predict.py: predict_text                                                *)
(***************************************************************************)

\* _model_outputs_real_price answering True for every artifact.
_model_outputs_always_real(pipeline_obj) == TRUE

\* _model_outputs_real_price
_model_outputs_real_price(pipeline_obj) ==
  pipeline_obj.model_step = "TransformedTargetRegressor"

\* round(float(np.expm1(raw_pred)), 2) in cents, for the raw outputs (in
\* thousandths) the model artifacts below can return.
EXPM1_CENTS ==
  (0 :> 0) @@ (12000 :> 16275379) @@ (12500 :> 26833629) @@ (13000 :> 44241239)

\* round(raw_pred, 2) in cents, for a raw output in thousandths.
round_cents(milli) ==
  LET q == milli \div 10
      r == milli % 10
  IN  IF r > 5 \/ (r = 5 /\ q % 2 = 1) THEN q + 1 ELSE q

DigitChar(d) == <<"0","1","2","3","4","5","6","7","8","9">>[d + 1]

RECURSIVE digits_of(_)
digits_of(n) == IF n < 10 THEN <<DigitChar(n)>> ELSE digits_of(n \div 10) \o <<DigitChar(n % 10)>>

RECURSIVE group3(_)
group3(ds) ==
  IF Len(ds) <= 3 THEN ds
  ELSE group3(SubSeq(ds, 1, Len(ds) - 3)) \o <<",">> \o SubSeq(ds, Len(ds) - 2, Len(ds))

\* f"€{pred_value:,.2f}" for a value given in cents.
format_eur(cents) ==
  LET a == IF cents < 0 THEN 0 - cents ELSE cents
  IN  "€" \o (IF cents < 0 THEN "-" ELSE "")
          \o Str(group3(digits_of(a \div 100))) \o "."
          \o Str(<<DigitChar((a % 100) \div 10), DigitChar(a % 10)>>)

\* What a call of preprocess did, kept for inspection: whether it ran, the
\* exception it raised, and the frame and warning line it returned.
Ran(P) == [ran |-> TRUE, exc |-> P.exc, X |-> P.X, warning |-> P.warning]

NotRun == [ran |-> FALSE, exc |-> NoExc, X |-> NoFrame, warning |-> NoneC]

\* price_cents with np.exp in place of np.expm1.
price_cents_exp(pipeline, raw_pred) ==
  IF _model_outputs_real_price(pipeline) THEN round_cents(raw_pred)
  ELSE EXPM1_CENTS[raw_pred] + 100

\* Lines 467-468: the price in cents.
price_cents(pipeline, raw_pred) ==
  IF _model_outputs_real_price(pipeline) THEN round_cents(raw_pred)
  ELSE EXPM1_CENTS[raw_pred]

\* Lines 465-473, given what preprocess left.
predict_preprocessed(P, raw_pred) ==
  IF P.exc # NoExc
    THEN [cache |-> P.cache, exc |-> P.exc, pre |-> Ran(P), text |-> None,
          warning |-> NoneC]
  ELSE [cache |-> P.cache, exc |-> NoExc, pre |-> Ran(P),
        text |-> format_eur(price_cents(P.cache._pipeline, raw_pred)),
        warning |-> P.warning]

\* Lines 462-473, given what load_artifacts left.
predict_loaded(L, files, req, now, raw_pred) ==
  IF L.exc # NoExc
    THEN [cache |-> L.cache, exc |-> L.exc, pre |-> NotRun, text |-> None,
          warning |-> NoneC]
  ELSE predict_preprocessed(preprocess(L.cache, files, req, now), raw_pred)

\* predict_text(req), given the scalar the pipeline's predict returns.
predict_text(c, files, req, now, raw_pred) ==
  predict_loaded(load_artifacts(c, files), files, req, now, raw_pred)

(***************************************************************************)
(* app.py: the service                                                     *)
(***************************************************************************)

MSG_NOT_READY == "Model is not ready (artifacts failed to load)."

Response(status, text, warning, error) ==
  [status |-> status, prediction_text |-> text, warning |-> warning, error |-> error]

\* respond with the ValueError branch (lines 144-145) taken out.
respond_without_400(R) ==
  [cache |-> R.cache, pre |-> R.pre,
   resp |-> IF R.exc = NoExc THEN Response(200, R.text, R.warning, None)
            ELSE Response(500, None, NoneC, "Prediction failed: " \o R.exc.msg)]

\* Lines 142-152: the response for what predict_text returned or raised.
respond(R) ==
  [cache |-> R.cache, pre |-> R.pre,
   resp |-> IF R.exc = NoExc THEN Response(200, R.text, R.warning, None)
            ELSE IF R.exc.type = "ValueError" THEN Response(400, None, NoneC, R.exc.msg)
            ELSE Response(500, None, NoneC, "Prediction failed: " \o R.exc.msg)]

\* predict_endpoint(req), after the readiness check.
handle_predict(c, files, req, now, raw_pred) ==
  respond(predict_text(c, files, req, now, raw_pred))

(***************************************************************************)
(* The environment: files on disk, the clock, and the requests sent        *)
(***************************************************************************)

ALL_COLUMNS ==
  <<"build_year", "facades", "living_area", "number_rooms", "house_age",
    "is_new_build", "is_recent", "is_old", "build_decade",
    "garden", "terrace", "swimming_pool", "postal_code", "property_type",
    "state", "province", "region">>

\* pipeline.joblib: numeric and categorical groups over every column, a
\* TransformedTargetRegressor as its model (real-scale output).
ArtifactA ==
  Artifact(TRUE,
           <<Columns(TRUE, SubSeq(ALL_COLUMNS, 1, 9)), Columns(TRUE, SubSeq(ALL_COLUMNS, 10, 17))>>,
           "TransformedTargetRegressor", {250000000})

\* xgboost_log_model.pkl: fewer columns, one listed twice, one the record
\* never computes, a remainder entry whose columns are not a list, and a
\* plain regressor as its model (log-scale output).
ArtifactB ==
  Artifact(TRUE,
           <<Columns(TRUE, <<"living_area", "build_year", "house_age">>),
             Columns(TRUE, <<"province", "region", "postal_code", "garden", "terrace",
                             "swimming_pool", "property_type", "state",
                             "living_area", "city">>),
             Columns(FALSE, <<>>)>>,
           "XGBRegressor", {12000})

NoModelFile == ModelFile(FALSE, NoPipeline)

NoRefFile == RefFile(FALSE, {}, <<>>, <<>>)

\* A clean reference: canonical Dutch names, with stray whitespace, a repeated
\* postcode, a row without province and a row without postcode.
RefMain ==
  RefFile(TRUE, {},
          <<Chars(" Postcode "), Chars("Gemeente"), Chars("Provincie")>>,
          << <<Chars("9000"), Chars("Gent"), Chars("Oost-Vlaanderen ")>>,
             <<Chars("1000"), Chars("Brussel"), Chars("BRUSSEL")>>,
             <<Chars("4000"), Chars("Luik"), Chars("Luik")>>,
             <<Chars("9000"), Chars("Gent"), Chars("Antwerpen")>>,
             <<Chars("2000"), Chars("Antwerpen"), NoneC>>,
             <<Chars("n/a"), Chars("Gent"), Chars("Limburg")>> >>)

\* A reference as exported elsewhere: Latin-1 bytes that do not decode as
\* UTF-8, other header names, province names as its source spells them, and
\* a special postcode below 1000.
RefAlt ==
  RefFile(TRUE, {"utf-8-sig", "utf-8"},
          <<Chars("zip code"), Chars("province name")>>,
          << <<Chars("9000"), Chars("oost-vlaanderen")>>,
             <<Chars("B-4000"), Chars("Liège")>>,
             <<Chars("1000"), Chars("Brussel (19 gemeenten)")>>,
             <<Chars("0612"), Chars("Antwerpen")>> >>)

FileSystems ==
  [primary : {NoModelFile, ModelFile(TRUE, ArtifactA)},
   fallback : {NoModelFile, ModelFile(TRUE, ArtifactB)},
   ref : {NoRefFile, RefMain, RefAlt}]

\* The value of a column of a frame, and whether the frame has the column.
HasCol(X, col) == \E i \in 1..Len(X) : X[i][1] = col

XGet(X, col) == X[CHOOSE i \in 1..Len(X) : X[i][1] = col][2]

\* datetime.now().year / date.today().year
ThisYear == 2026

\* The most optional categorical fields (garden, terrace, swimming_pool,
\* property_type, state) one request supplies.
MaxSoftFields == 2

SOFT_FIELDS == {"garden", "terrace", "swimming_pool", "property_type", "state"}

GardenInputs == {NoneC, Chars(" "), Chars("maybe"), Chars(" YES ")}

TerraceInputs == {NoneC, Chars(""), Chars("1"), Chars("x")}

PoolInputs == {NoneC, Chars("\t"), Chars("n/a")}

PropertyTypeInputs == {NoneC, Chars(" "), Chars("House"), Chars("castle")}

StateInputs == {NoneC, Chars(""), Chars("Renovated"), Chars("ruin")}

PostalInputs ==
  {NoneC, Chars(" "), Chars("9000"), Chars("B-9000"), Chars("900"), Chars("0612"),
   Chars("1000"), Chars("4000"), Chars("2000")}

ProvinceInputs ==
  {NoneC, Chars(""), Chars("Bruxelles"), Chars("oost-vlaanderen "), Chars("Liège"),
   Chars("Antwerp")}

AllPayloads ==
  [build_year : {1996}, living_area : {120}, number_rooms : {3}, facades : {2},
   garden : GardenInputs, terrace : TerraceInputs, swimming_pool : PoolInputs,
   postal_code : PostalInputs, province : ProvinceInputs,
   property_type : PropertyTypeInputs, state : StateInputs]

Supplied(p) == {f \in SOFT_FIELDS : p[f] # NoneC}

Payloads == {p \in AllPayloads : Cardinality(Supplied(p)) <= MaxSoftFields}

NoPayload ==
  [build_year |-> 0, living_area |-> 0, number_rooms |-> 0, facades |-> 0,
   garden |-> NoneC, terrace |-> NoneC, swimming_pool |-> NoneC,
   postal_code |-> NoneC, province |-> NoneC,
   property_type |-> NoneC, state |-> NoneC]

NoResponse == Response(0, None, NoneC, None)

(***************************************************************************)
(* The state machine                                                       *)
(***************************************************************************)

VARIABLES
  files,                \* the model files and the reference file on disk
  now,                  \* the current calendar year
  _pipeline,            \* predict.py module cache: the loaded pipeline
  _expected_cols,       \* predict.py module cache: the expected columns
  _postal_to_province,  \* predict.py module cache: the postal index
  phase,                \* "boot" before the lifespan hook has run, then "up"
  ready,                \* app.state.ready
  startup_error,        \* app.state.startup_error
  payload,              \* the request being answered
  pre,                  \* what preprocess did for it
  resp,                 \* the response to it
  calls                 \* the calls of load_artifacts made from request threads

vars ==
  <<files, now, _pipeline, _expected_cols, _postal_to_province, phase, ready,
    startup_error, payload, pre, resp, calls>>

caches == Cache(_pipeline, _expected_cols, _postal_to_province)

\* The most request threads that call load_artifacts at the same time.
NumCallers == 2

Callers == 1..NumCallers

\* A call of load_artifacts: the line it is at, its local model_path, and
\* what its caller read from the caches after it returned.
Call(pc, model_path, seen) == [pc |-> pc, model_path |-> model_path, seen |-> seen]

NotRead == [cols |-> <<>>, postal |-> EmptyDict, read |-> FALSE]

NoCall == Call("idle", NoModelFile, NotRead)

SetCaches(c) ==
  /\ _pipeline' = c._pipeline
  /\ _expected_cols' = c._expected_cols
  /\ _postal_to_province' = c._postal_to_province

Init ==
  /\ files \in FileSystems
  /\ now = ThisYear
  /\ _pipeline = NoPipeline
  /\ _expected_cols = <<>>
  /\ _postal_to_province = EmptyDict
  /\ phase = "boot"
  /\ ready = FALSE
  /\ startup_error = None
  /\ payload = NoPayload
  /\ pre = NotRun
  /\ resp = NoResponse
  /\ calls = [t \in Callers |-> NoCall]

\* The lifespan hook marking the service ready whatever load_artifacts did.
Started_always_ready(L) ==
  /\ SetCaches(L.cache)
  /\ ready' = TRUE
  /\ startup_error' = IF L.exc = NoExc THEN None ELSE L.exc.msg

\* Lines 50-58 of app.py, given what load_artifacts left.
Started(L) ==
  /\ SetCaches(L.cache)
  /\ ready' = (L.exc = NoExc)
  /\ startup_error' = IF L.exc = NoExc THEN None ELSE L.exc.msg

\* app.py lifespan: the startup load.
Lifespan ==
  /\ phase = "boot"
  /\ Started(load_artifacts(caches, files))
  /\ phase' = "up"
  /\ UNCHANGED <<calls, files, now, payload, pre, resp>>

\* The service is up and no request is being answered.
Idle == phase = "up" /\ resp = NoResponse

\* The 422 for a payload whose validation V failed.
Refused(p, V) ==
  /\ ~V.ok
  /\ payload' = p
  /\ pre' = NotRun
  /\ resp' = Response(422, None, NoneC, V.msg)

\* POST /predict with a body the schema rejects: FastAPI answers 422 and the
\* handler is not called.
PredictInvalid ==
  /\ Idle
  /\ \E p \in Payloads : Refused(p, validate(p, now))
  /\ UNCHANGED <<calls, files, now, _pipeline, _expected_cols, _postal_to_province, phase,
                 ready, startup_error>>

\* POST /predict while app.state.ready is false: 503, predict_text not called.
PredictNotReady ==
  /\ Idle
  /\ ~ready
  /\ \E p \in Payloads :
       /\ validate(p, now).ok
       /\ payload' = p
       /\ pre' = NotRun
       /\ resp' = Response(503, None, NoneC, MSG_NOT_READY)
  /\ UNCHANGED <<calls, files, now, _pipeline, _expected_cols, _postal_to_province, phase,
                 ready, startup_error>>

\* The handler's result H becomes the response; the caches are what it left.
Answer(p, H) ==
  /\ payload' = p
  /\ SetCaches(H.cache)
  /\ pre' = H.pre
  /\ resp' = H.resp

Served(p, V, raw_pred) ==
  /\ V.ok
  /\ Answer(p, handle_predict(caches, files, V.req, now, raw_pred))

\* POST /predict, served: predict_endpoint calls predict_text.
PredictServed ==
  /\ Idle
  /\ ready
  /\ \E p \in Payloads, raw_pred \in _pipeline.outputs : Served(p, validate(p, now), raw_pred)
  /\ UNCHANGED <<calls, files, now, phase, ready, startup_error>>

\* The response is sent; the request, the working record and the result are
\* discarded.
Return ==
  /\ resp # NoResponse
  /\ payload' = NoPayload
  /\ pre' = NotRun
  /\ resp' = NoResponse
  /\ UNCHANGED <<calls, files, now, _pipeline, _expected_cols, _postal_to_province, phase,
                 ready, startup_error>>

Next ==
  \/ Lifespan
  \/ PredictInvalid
  \/ PredictNotReady
  \/ PredictServed
  \/ Return

Spec == Init /\ [][Next]_vars

(***************************************************************************)
(* The service under a running clock, answering filled-in requests         *)
(***************************************************************************)

\* The last calendar year the clock reaches.
LastYear == 2027

BuildYears == {1996, 2006}

\* Requests that supply every optional categorical field (blank, valid or
\* invalid), located by a province only, by a postal code only, or by both.
WidePayloads ==
  [build_year : BuildYears, living_area : {120}, number_rooms : {3}, facades : {2},
   garden : GardenInputs \ {NoneC}, terrace : TerraceInputs \ {NoneC},
   swimming_pool : PoolInputs \ {NoneC},
   postal_code : {NoneC, Chars("9000")}, province : {NoneC, Chars("Bruxelles")},
   property_type : PropertyTypeInputs \ {NoneC}, state : StateInputs \ {NoneC}]

\* POST /predict with one of those requests, served.
ServeWide ==
  /\ Idle
  /\ ready
  /\ \E p \in WidePayloads, raw_pred \in _pipeline.outputs :
       Served(p, validate(p, now), raw_pred)
  /\ UNCHANGED <<calls, files, now, phase, ready, startup_error>>

\* New Year: datetime.now().year moves on.
Tick ==
  /\ phase = "up"
  /\ now < LastYear
  /\ now' = now + 1
  /\ UNCHANGED <<calls, files, _pipeline, _expected_cols, _postal_to_province, phase, ready,
                 startup_error, payload, pre, resp>>

NextWide ==
  \/ Lifespan
  \/ ServeWide
  \/ Tick
  \/ Return

SpecWide == Init /\ [][NextWide]_vars

(***************************************************************************)
(* load_artifacts called from concurrent request threads on cold caches    *)
(***************************************************************************)

\* An artifact that is not a pipeline with a "preprocess" step.
ArtifactBare == Artifact(FALSE, <<>>, "XGBRegressor", {12000})

ColdFileSystems ==
  [primary : {NoModelFile, ModelFile(TRUE, ArtifactA), ModelFile(TRUE, ArtifactBare)},
   fallback : {NoModelFile, ModelFile(TRUE, ArtifactB)},
   ref : {NoRefFile, RefMain, RefAlt}]

\* The process as imported: nothing loaded, no lifespan hook run.
InitCold ==
  /\ files \in ColdFileSystems
  /\ now = ThisYear
  /\ _pipeline = NoPipeline
  /\ _expected_cols = <<>>
  /\ _postal_to_province = EmptyDict
  /\ phase = "boot"
  /\ ready = FALSE
  /\ startup_error = None
  /\ payload = NoPayload
  /\ pre = NotRun
  /\ resp = NoResponse
  /\ calls = [t \in Callers |-> NoCall]

At(t, pc) == calls[t].pc = pc

Goto(t, pc) == calls' = [calls EXCEPT ![t].pc = pc]

service == <<files, now, phase, ready, startup_error, payload, pre, resp>>

\* preprocess / predict_text call load_artifacts() (lines 355, 461).
Enter ==
  \E t \in Callers :
    /\ At(t, "idle")
    /\ Goto(t, "174")
    /\ UNCHANGED <<service, _pipeline, _expected_cols, _postal_to_province>>

\* Lines 174-175: if _pipeline is not None: return
CheckLoaded ==
  \E t \in Callers :
    /\ At(t, "174")
    /\ Goto(t, IF _pipeline # NoPipeline THEN "returned" ELSE "177")
    /\ UNCHANGED <<service, _pipeline, _expected_cols, _postal_to_province>>

\* Lines 177-179: the model path, or FileNotFoundError.
ResolvePath ==
  \E t \in Callers :
    /\ At(t, "177")
    /\ calls' = [calls EXCEPT
                   ![t].model_path = IF files.primary.exists THEN files.primary
                                     ELSE files.fallback,
                   ![t].pc = IF files.primary.exists \/ files.fallback.exists
                             THEN "183" ELSE "raised"]
    /\ UNCHANGED <<service, _pipeline, _expected_cols, _postal_to_province>>

\* Line 183: _pipeline = joblib.load(model_path)
StorePipeline ==
  \E t \in Callers :
    /\ At(t, "183")
    /\ _pipeline' = calls[t].model_path.artifact
    /\ Goto(t, "184")
    /\ UNCHANGED <<service, _expected_cols, _postal_to_province>>

\* Line 184: _expected_cols = _infer_expected_columns(_pipeline), or the
\* KeyError of named_steps["preprocess"].
StoreColumns ==
  \E t \in Callers :
    /\ At(t, "184")
    /\ IF _pipeline.has_preprocess
       THEN /\ _expected_cols' = _infer_expected_columns(_pipeline)
            /\ Goto(t, "187")
       ELSE /\ UNCHANGED _expected_cols
            /\ Goto(t, "raised")
    /\ UNCHANGED <<service, _pipeline, _postal_to_province>>

\* Line 187: _postal_to_province = _load_postal_lookup(POSTAL_REF_PATH)
StorePostal ==
  \E t \in Callers :
    /\ At(t, "187")
    /\ _postal_to_province' = _load_postal_lookup(files.ref)
    /\ Goto(t, "returned")
    /\ UNCHANGED <<service, _pipeline, _expected_cols>>

\* The caller goes on (preprocess lines 356-448) and reads the caches.
ReadCaches ==
  \E t \in Callers :
    /\ At(t, "returned")
    /\ calls' = [calls EXCEPT
                   ![t].seen = [cols |-> _expected_cols, postal |-> _postal_to_province,
                                read |-> TRUE],
                   ![t].pc = "done"]
    /\ UNCHANGED <<service, _pipeline, _expected_cols, _postal_to_province>>

NextCold ==
  \/ Enter
  \/ CheckLoaded
  \/ ResolvePath
  \/ StorePipeline
  \/ StoreColumns
  \/ StorePostal
  \/ ReadCaches

SpecCold == InitCold /\ [][NextCold]_vars

(***************************************************************************)
(* The service started on faulty files, with its readiness probe           *)
(***************************************************************************)

\* A reference file with a province column and no postal-code column.
RefNoPostcode ==
  RefFile(TRUE, {},
          <<Chars("Gemeente"), Chars("Provincie")>>,
          << <<Chars("Gent"), Chars("Oost-Vlaanderen ")>>,
             <<Chars("Luik"), Chars("Luik")>> >>)

\* A zero-byte reference file: read_csv raises in every encoding.
RefEmpty == RefFile(TRUE, {"utf-8-sig", "utf-8", "latin1", "cp1252"}, <<>>, <<>>)

StartupFileSystems ==
  [primary : {NoModelFile, ModelFile(TRUE, ArtifactA), ModelFile(TRUE, ArtifactBare)},
   fallback : {NoModelFile, ModelFile(TRUE, ArtifactB)},
   ref : {NoRefFile, RefNoPostcode, RefEmpty}]

InitStartup ==
  /\ files \in StartupFileSystems
  /\ now = ThisYear
  /\ _pipeline = NoPipeline
  /\ _expected_cols = <<>>
  /\ _postal_to_province = EmptyDict
  /\ phase = "boot"
  /\ ready = FALSE
  /\ startup_error = None
  /\ payload = NoPayload
  /\ pre = NotRun
  /\ resp = NoResponse
  /\ calls = [t \in Callers |-> NoCall]

\* Lines 88-98 of app.py: the answer of /health.
health(is_ready, error) ==
  IF is_ready
    THEN [status |-> 200, content |-> [status |-> "ok", ready |-> TRUE, error |-> None]]
  ELSE [status |-> 503, content |-> [status |-> "starting", ready |-> FALSE, error |-> error]]

\* GET /health
Health ==
  /\ Idle
  /\ resp' = health(ready, startup_error)
  /\ UNCHANGED <<calls, files, now, _pipeline, _expected_cols, _postal_to_province, phase,
                 ready, startup_error, payload, pre>>

NextStartup ==
  \/ Lifespan
  \/ PredictInvalid
  \/ PredictNotReady
  \/ PredictServed
  \/ Health
  \/ Return

SpecStartup == InitStartup /\ [][NextStartup]_vars

(***************************************************************************)
(* Requests located by a province only, in many spellings                  *)
(***************************************************************************)

\* The canonical labels as they are, lower-cased and padded; Dutch and
\* French names with accents, blanks and punctuation; names of no province.
ProvinceSpellings ==
  {Chars(p) : p \in ALLOWED_PROVINCES}
    \cup {str_lower(Chars(p)) : p \in ALLOWED_PROVINCES}
    \cup {<<" ">> \o Chars(p) \o <<"\t">> : p \in ALLOWED_PROVINCES}
    \cup {Chars("Bruxelles"), Chars("Liège"), Chars("LIÈGE"), Chars("Anvers"),
          Chars("Hainaut"), Chars("Namur"), Chars("Luxembourg"),
          Chars("Brabant wallon"), Chars("brabant_flamand"),
          Chars("Flandre-Orientale"), Chars("Flandre occidentale"),
          Chars("Bruxelles-Capitale"), Chars("Région de Bruxelles-Capitale"),
          Chars("West Vlaanderen"), Chars("Oost.Vlaanderen"), Chars("Waals_Brabant"),
          Chars("Antwerp"), Chars("Brussels"), Chars("Vlaanderen"), Chars("Gent"),
          Chars("Brabant"), Chars("-")}

ProvincePayloads ==
  [build_year : {1996}, living_area : {120}, number_rooms : {3}, facades : {2},
   garden : {NoneC}, terrace : {NoneC}, swimming_pool : {NoneC},
   postal_code : {NoneC}, province : ProvinceSpellings,
   property_type : {NoneC}, state : {NoneC}]

\* POST /predict with one of those requests, served.
ServeProvince ==
  /\ Idle
  /\ ready
  /\ \E p \in ProvincePayloads, raw_pred \in _pipeline.outputs :
       Served(p, validate(p, now), raw_pred)
  /\ UNCHANGED <<calls, files, now, phase, ready, startup_error>>

NextProvince ==
  \/ Lifespan
  \/ ServeProvince
  \/ Return

SpecProvince == Init /\ [][NextProvince]_vars

(***************************************************************************)
(* preprocess called directly, on requests of any build year               *)
(***************************************************************************)

\* Build years on both sides of each age threshold, and in the future.
AgeYears == {1900, 1976, 1977, 2005, 2006, 2020, 2021, 2022, 2026, 2027, 2030}

\* Request objects as a caller other than the endpoint can hand them to
\* preprocess: built without validation, so build_year may be in the future.
DirectRequests ==
  [build_year : AgeYears, living_area : {120}, number_rooms : {3}, facades : {2},
   garden : {NoneC}, terrace : {NoneC}, swimming_pool : {NoneC},
   postal_code : {NoneC}, province : {Chars("Luik"), Chars("Gent")},
   property_type : {NoneC}, state : {NoneC}]

\* What preprocess returned or raised is kept, the caches are what it left.
Called(r, P) ==
  /\ payload' = r
  /\ SetCaches(P.cache)
  /\ pre' = Ran(P)

\* preprocess(req), lines 342-450.
CallPreprocess ==
  /\ phase = "up"
  /\ ~pre.ran
  /\ \E r \in DirectRequests : Called(r, preprocess(caches, files, r, now))
  /\ UNCHANGED <<calls, files, now, phase, ready, startup_error, resp>>

\* The caller drops the request and the result.
Discard ==
  /\ pre.ran
  /\ payload' = NoPayload
  /\ pre' = NotRun
  /\ UNCHANGED <<calls, files, now, _pipeline, _expected_cols, _postal_to_province, phase,
                 ready, startup_error, resp>>

NextDirect ==
  \/ Lifespan
  \/ CallPreprocess
  \/ Discard

SpecDirect == Init /\ [][NextDirect]_vars

(***************************************************************************)
(* Properties                                                              *)
(***************************************************************************)

\* The request being answered, as the schema hands it to the pipeline.
Req == validate(payload, now).req

Answered == resp # NoResponse

Succeeded == pre.ran /\ pre.exc = NoExc

Index == _postal_to_province

\* The postal code sent, reduced to its digits; whether that is a 4-digit
\* number within 1000..9999; and whether the index has it.
PostalDigits == only_digits(Req.postal_code)

WellFormedPostal ==
  /\ Req.postal_code # NoneC
  /\ Len(PostalDigits) = 4
  /\ int_of(PostalDigits) >= 1000
  /\ int_of(PostalDigits) <= 9999

PostalKey == Str(PostalDigits)

PostalFound == WellFormedPostal /\ PostalKey \in DOMAIN Index

\* The canonical province the province sent normalizes to, or None.
SentProvince == _normalize_province(Req.province)

ProvinceOnlyNote == Chars("postal_code not provided; using province only.")

AMENITIES == {"garden", "terrace", "swimming_pool"}

\* The tokens an amenity field accepts, once trimmed and lower-cased.
AmenityAccepted == {"yes", "no", "unknown", "true", "1", "y", "false", "0", "n"}

InvalidAmenity(f) ==
  /\ Req[f] # NoneC
  /\ Str(str_lower(str_strip(Req[f]))) \notin AmenityAccepted

\* The warning preprocess emits about an optional categorical field.
NoteOf(f) ==
  CASE f = "property_type" -> Chars("property_type not known; treated as missing.")
    [] f = "state" -> Chars("state not known; treated as missing.")
    [] OTHER -> Chars(f) \o Chars(" invalid; treated as missing.")

\* No optional categorical field of the request draws a warning.
NoSoftWarning ==
  /\ \A f \in AMENITIES : Req[f] = NoneC \/ ~InvalidAmenity(f)
  /\ Req.property_type = NoneC \/ _normalize_property_type(Req.property_type) # None
  /\ Req.state = NoneC \/ _normalize_state(Req.state) # None

\* The request with its five optional categorical fields left out.
StripSoft(r) ==
  [r EXCEPT !.garden = NoneC, !.terrace = NoneC, !.swimming_pool = NoneC,
            !.property_type = NoneC, !.state = NoneC]

Blank(v) == v # NoneC /\ str_strip(v) = <<>>

\* C1 (as stated): whenever the postal code sent is found in the index and a
\* province is sent that disagrees with the index's province for that code,
\* preprocess raises a ValueError whose message names the reference province
\* and the province sent; the request never succeeds.
C1_MismatchAlwaysRaises ==
  (/\ pre.ran
   /\ PostalFound
   /\ Req.province # NoneC
   /\ SentProvince # Index[PostalKey])
  => /\ pre.exc.type = "ValueError"
     /\ \E sent \in {SentProvince, Str(Req.province)} :
          pre.exc.msg = msg_mismatch(PostalKey, Index[PostalKey], sent)

\* C2: a request with no postal code and a province that is absent or not
\* recognizable never succeeds and yields no feature frame; when preprocess
\* runs on it, it raises the location ValueError (answered 400), and a
\* request with neither field is already refused by the schema's
\* require_location.
C2_NoLocationFails ==
  (/\ Answered
   /\ Req.postal_code = NoneC
   /\ SentProvince = None)
  => /\ resp.status # 200
     /\ pre.X = NoFrame
     /\ IF pre.ran
        THEN /\ pre.exc = Exc("ValueError", MSG_NEED_LOCATION)
             /\ resp.status = 400
             /\ resp.error = MSG_NEED_LOCATION
        ELSE /\ resp.status \in {422, 503}
             /\ resp.status = 422 => (Req.province = NoneC /\ resp.error = MSG_NO_LOCATION)

C2_Witness ==
  /\ pre.ran
  /\ Req.postal_code = NoneC
  /\ Req.province = Chars("Antwerp")
  /\ Req.garden = Chars("YES")
  /\ pre.exc = Exc("ValueError", MSG_NEED_LOCATION)

\* C3 (as stated): for every postal code of the index, the request that
\* supplies that code and no other optional field succeeds with the indexed
\* province, the region that province belongs to, and no warning.
C3_IndexedCodeResolves ==
  (/\ Answered
   /\ ready
   /\ payload.postal_code # NoneC
   /\ Str(payload.postal_code) \in DOMAIN Index
   /\ payload.province = NoneC
   /\ Supplied(payload) = {})
  => /\ Succeeded
     /\ pre.warning = NoneC
     /\ XGet(pre.X, "province") = PyStr(Index[Str(payload.postal_code)])
     /\ Index[Str(payload.postal_code)] \in DOMAIN REGION_MAP
     /\ XGet(pre.X, "region") = PyStr(REGION_MAP[Index[Str(payload.postal_code)]])

\* C4: a request with no postal code and a recognizable province succeeds
\* with that canonical province; its warning line contains the province-only
\* note, and is exactly that note when no optional field draws a warning.
C4_ProvinceOnlySucceeds ==
  (/\ pre.ran
   /\ Req.postal_code = NoneC
   /\ SentProvince # None)
  => /\ Succeeded
     /\ XGet(pre.X, "province") = PyStr(SentProvince)
     /\ SentProvince \in ALLOWED_PROVINCES
     /\ Contains(pre.warning, ProvinceOnlyNote)
     /\ NoSoftWarning => pre.warning = ProvinceOnlyNote

C4_Witness ==
  /\ Succeeded
  /\ payload.postal_code = NoneC
  /\ payload.province = Chars("Bruxelles")
  /\ Supplied(payload) = {}
  /\ XGet(pre.X, "province") = PyStr("BRUSSEL")
  /\ pre.warning = ProvinceOnlyNote
  /\ resp.warning = ProvinceOnlyNote

\* C5: when the postal code sent is found in the index and the province is
\* absent or normalizes to the index's province, preprocess succeeds, the
\* province feature is the index's province and the postal_code feature is
\* the 4-digit string.
C5_FoundCodeSetsProvince ==
  (/\ pre.ran
   /\ PostalFound
   /\ (Req.province = NoneC \/ SentProvince = Index[PostalKey]))
  => /\ Succeeded
     /\ XGet(pre.X, "province") = PyStr(Index[PostalKey])
     /\ XGet(pre.X, "postal_code") = PyStr(PostalKey)

C5_Witness ==
  /\ Succeeded
  /\ payload.postal_code = Chars("B-9000")
  /\ payload.province = Chars("oost-vlaanderen ")
  /\ XGet(pre.X, "province") = PyStr("OOST-VLAANDEREN")
  /\ XGet(pre.X, "postal_code") = PyStr("9000")

\* C6: a postal code sent is accepted only if its digits are exactly four and
\* their value is within 1000..9999.  Any other is refused with the "exactly
\* 4 digits" error (by the schema when the digits are not four, by preprocess
\* otherwise) and yields no frame; an accepted one never draws that error and
\* is carried forward as its four digits.
C6_PostalCodeFormat ==
  (Answered /\ Req.postal_code # NoneC)
  => IF WellFormedPostal
     THEN /\ resp.status # 422
          /\ pre.ran => pre.exc.msg # MSG_4DIGITS
          /\ Succeeded => XGet(pre.X, "postal_code") = PyStr(PostalKey)
     ELSE /\ resp.status \in {400, 422, 503}
          /\ resp.status # 503 => resp.error = MSG_4DIGITS
          /\ Len(PostalDigits) # 4 => resp.status = 422
          /\ pre.ran => pre.exc = Exc("ValueError", MSG_4DIGITS)
          /\ pre.X = NoFrame

C6_Witness ==
  /\ pre.ran
  /\ payload.postal_code = Chars("0612")
  /\ "0612" \in DOMAIN Index
  /\ pre.exc = Exc("ValueError", MSG_4DIGITS)
  /\ resp.status = 400

\* C7 (as stated): a well-formed postal code sent while the postal index is
\* empty is answered 503 (not ready).
C7_EmptyIndexIs503 ==
  (/\ Answered
   /\ ready
   /\ WellFormedPostal
   /\ DOMAIN Index = {})
  => resp.status = 503

\* C8: an amenity token outside the accepted domain never makes preprocess
\* raise (the exception, if any, is the one the request gets without that
\* field); when preprocess succeeds the amenity's feature is the missing
\* token "unknown" and the warning line contains "<field> invalid; treated
\* as missing." for that field, and for no amenity whose token is accepted
\* or absent.
C8_InvalidAmenityIsSoft ==
  pre.ran =>
    \A f \in AMENITIES :
      IF InvalidAmenity(f)
      THEN /\ pre.exc = preprocess(caches, files, [Req EXCEPT ![f] = NoneC], now).exc
           /\ Succeeded => /\ XGet(pre.X, f) = PyStr("unknown")
                           /\ Contains(pre.warning, NoteOf(f))
      ELSE ~Contains(pre.warning, NoteOf(f))

C8_Witness ==
  /\ Succeeded
  /\ Req.garden = Chars("maybe")
  /\ Req.swimming_pool = Chars("n/a")
  /\ XGet(pre.X, "garden") = PyStr("unknown")
  /\ Contains(pre.warning, Chars("garden invalid; treated as missing."))
  /\ Contains(pre.warning, Chars("swimming_pool invalid; treated as missing."))

\* C9: the exception preprocess raises, if any, is the one it raises for the
\* same request with the five optional categorical fields left out, so two
\* requests that differ only in those fields fail or succeed alike; and it is
\* the one the location policy gives for the request's postal_code and
\* province alone under the loaded index.
C9_SoftFieldsNeverAbort ==
  pre.ran =>
    /\ pre.exc = preprocess(caches, files, StripSoft(Req), now).exc
    /\ pre.exc = location([postal_code |-> Req.postal_code,
                           province |-> Req.province], Index).exc

C9_Witness ==
  /\ pre.ran
  /\ Req.garden = Chars("maybe")
  /\ Req.state = Chars("ruin")
  /\ pre.exc.type = "ValueError"
  /\ PostalFound

\* C10: a request with an empty or whitespace-only optional categorical field
\* is answered like the same request without the field: same validity, same
\* exception, same frame, same warning line, and no warning about the field.
C10_BlankIsAbsent ==
  Answered =>
    \A f \in SOFT_FIELDS :
      Blank(payload[f]) =>
        LET alt == [payload EXCEPT ![f] = NoneC]
            P == preprocess(caches, files, validate(alt, now).req, now)
        IN  /\ validate(alt, now).ok = validate(payload, now).ok
            /\ pre.ran => /\ pre.exc = P.exc
                          /\ pre.X = P.X
                          /\ pre.warning = P.warning
            /\ ~Contains(pre.warning, NoteOf(f))

C10_Witness ==
  /\ Succeeded
  /\ Blank(payload.property_type)
  /\ Blank(payload.garden)
  /\ pre.warning = NoneC

\* C11 (as stated): running preprocess again on the request just answered,
\* with the loaded artifact and the reference index unchanged, gives the same
\* frame and the same warning line, or the same error.
C11_RerunGivesSameResult ==
  pre.ran =>
    /\ preprocess(caches, files, Req, now).exc = pre.exc
    /\ preprocess(caches, files, Req, now).X = pre.X
    /\ preprocess(caches, files, Req, now).warning = pre.warning

\* C12: once the startup load has run, the caches are what one load gives:
\* nothing (and the missing-model error) when neither model path exists;
\* otherwise the artifact of the primary path if it exists, else of the
\* fallback path, with the columns inferred from it and the postal index
\* read from the reference file.  Every later call of load_artifacts, made
\* by each request served, finds the pipeline loaded and returns at once
\* with the caches as they are.
C12_LoadOnce ==
  phase = "up" =>
    /\ IF ~files.primary.exists /\ ~files.fallback.exists
       THEN /\ _pipeline = NoPipeline
            /\ _expected_cols = <<>>
            /\ _postal_to_province = EmptyDict
            /\ ~ready
            /\ startup_error = "Missing model."
       ELSE /\ _pipeline = IF files.primary.exists THEN files.primary.artifact
                           ELSE files.fallback.artifact
            /\ _pipeline.has_preprocess =>
                 /\ _expected_cols = _infer_expected_columns(_pipeline)
                 /\ _postal_to_province = _load_postal_lookup(files.ref)
                 /\ ready
                 /\ startup_error = None
    /\ _pipeline # NoPipeline =>
         load_artifacts(caches, files) = [cache |-> caches, exc |-> NoExc]

C12_Witness ==
  /\ resp.status = 200
  /\ ~files.primary.exists
  /\ files.fallback.exists
  /\ files.ref = RefMain
  /\ _pipeline = ArtifactB
  /\ _expected_cols = <<"living_area", "build_year", "house_age", "province", "region",
                        "postal_code", "garden", "terrace", "swimming_pool",
                        "property_type", "state", "city">>
  /\ DOMAIN _postal_to_province = {"1000", "4000", "9000"}

\* C13 (as stated): whatever the interleaving of the first callers of
\* load_artifacts, a caller for which it has returned reads the column list
\* and the postal index one complete load gives, and once every call has
\* ended the caches hold that single loaded state.
C13_LoadedMarkerIsLast ==
  \A t \in Callers :
    /\ calls[t].seen.read =>
         /\ calls[t].seen.cols = _infer_expected_columns(_pipeline)
         /\ calls[t].seen.postal = _load_postal_lookup(files.ref)
    /\ (\A u \in Callers : calls[u].pc = "done") =>
         /\ _pipeline = IF files.primary.exists THEN files.primary.artifact
                        ELSE files.fallback.artifact
         /\ _expected_cols = _infer_expected_columns(_pipeline)
         /\ _postal_to_province = _load_postal_lookup(files.ref)

\* C14: every request to /predict is answered in exactly one class, fixed by
\* its outcome: 422 when the schema rejects the body; 503 with the not-ready
\* message when the service is not ready; 200 with the price text and the
\* warning line (a string or null) when predict_text returned; 400 with the
\* message of the ValueError, verbatim, when it raised one; 500 with an error
\* text when it raised anything else.
C14_OneResponseClass ==
  Answered =>
    /\ resp.status \in {200, 400, 422, 500, 503}
    /\ resp.status = 422 <=> ~validate(payload, now).ok
    /\ resp.status = 503 <=> validate(payload, now).ok /\ ~ready
    /\ resp.status = 200 <=> Succeeded
    /\ resp.status = 400 <=> pre.ran /\ pre.exc.type = "ValueError"
    /\ resp.status = 500 <=> pre.ran /\ pre.exc.type \notin {"<None>", "ValueError"}
    /\ resp.status = 200 =>
         /\ resp.prediction_text # None
         /\ resp.warning = pre.warning
         /\ resp.error = None
    /\ resp.status = 400 => resp.error = pre.exc.msg
    /\ resp.status = 503 => resp.error = MSG_NOT_READY /\ ~pre.ran
    /\ resp.status \in {400, 422, 500, 503} =>
         /\ resp.prediction_text = None
         /\ resp.error # None /\ resp.error # ""

C14_Witness ==
  /\ resp.status = 400
  /\ pre.exc.type = "ValueError"
  /\ resp.error = "You must provide either a valid postal_code or a recognizable province."

\* What the handler answers to the request at hand when predict_text fails
\* in load_artifacts with the exception e.
AnswerToFault(e) ==
  respond(predict_loaded([cache |-> caches, exc |-> e], files, Req, now, 0)).resp

\* C15 (as stated): a request that fails with a fault other than a
\* ValueError or unavailable artifacts gets a generic error text, the same
\* text a request failing with another internal exception gets.
C15_GenericErrorText ==
  resp.status = 500 =>
    /\ AnswerToFault(Exc("KeyError", "'preprocess'")).status = 500
    /\ AnswerToFault(Exc("KeyError", "'preprocess'")).error = resp.error

\* C16: the price text of a successful answer is fixed by the artifact alone,
\* whatever the request: with a TransformedTargetRegressor as model step the
\* scalar the artifact returns is the price (250000.0 gives "€250,000.00");
\* with any other model step the price is expm1 of the scalar.
C16_DetransformFromArtifact ==
  resp.status = 200 =>
    \E raw_pred \in _pipeline.outputs :
      IF _pipeline.model_step = "TransformedTargetRegressor"
        THEN /\ raw_pred = 250000000
             /\ resp.prediction_text = "€250,000.00"
        ELSE resp.prediction_text = format_eur(EXPM1_CENTS[raw_pred])

C16_Witness ==
  /\ resp.status = 200
  /\ _pipeline.model_step = "TransformedTargetRegressor"
  /\ resp.prediction_text = "€250,000.00"

\* C17 (amended): an artifact on the log scale that returns the raw scalar
\* 12.0 gives the price expm1(12.0) = 162753.79 and the text "€162,753.79".
C17_Log12Gives162753 ==
  (resp.status = 200 /\ _pipeline.model_step = "XGBRegressor" /\ _pipeline.outputs = {12000})
    => resp.prediction_text = "€162,753.79"

C17_Witness ==
  /\ resp.status = 200
  /\ _pipeline = ArtifactB
  /\ ~_model_outputs_real_price(_pipeline)
  /\ _pipeline.outputs = {12000}

\* C17 (as stated): an artifact on the log scale that returns the raw scalar
\* 12.0 gives the text "€162,754.79".
C17_Log12Gives162754 ==
  (resp.status = 200 /\ _pipeline.model_step = "XGBRegressor" /\ _pipeline.outputs = {12000})
    => resp.prediction_text = "€162,754.79"

\* The columns of a frame, in order.
ColumnsOf(X) == [i \in 1..Len(X) |-> X[i][1]]

\* C18: the frame a successful preprocess returns has exactly the columns of
\* _expected_cols, in that order; a column the record does not compute is
\* missing (NaN); no field outside the expected columns is in the frame, and
\* the numeric request fields that are expected carry the request's values.
C18_FrameHasExpectedColumns ==
  Succeeded =>
    /\ ColumnsOf(pre.X) = _expected_cols
    /\ \A i \in 1..Len(pre.X) :
         /\ pre.X[i][1] \notin Range(ALL_COLUMNS) => pre.X[i][2] = NaN
         /\ pre.X[i][1] = "living_area" => pre.X[i][2] = PyNum(Req.living_area)
         /\ pre.X[i][1] = "build_year" => pre.X[i][2] = PyNum(Req.build_year)

C18_Witness ==
  /\ Succeeded
  /\ ColumnsOf(pre.X) =
       <<"living_area", "build_year", "house_age", "province", "region", "postal_code",
         "garden", "terrace", "swimming_pool", "property_type", "state", "city">>
  /\ pre.X[12] = <<"city", NaN>>
  /\ pre.X[1] = <<"living_area", PyNum(120)>>

\* The cells of the frame X under the column c (none when c is not a column).
CellsAt(X, c) == {X[i][2] : i \in {j \in 1..Len(X) : X[j][1] = c}}

Unknown == PyStr("unknown")

\* C19: after a successful preprocess every categorical column of the frame
\* holds a string, never null or NaN, and holds "unknown" whenever the
\* field's normalized value is missing: an amenity left out or invalid, a
\* property_type or state left out or not recognized, the postal_code of a
\* request located by its province only, a province without a region.
C19_CategoricalsDefaultToUnknown ==
  Succeeded =>
    /\ \A c \in Range(CAT_COLS) : \A v \in CellsAt(pre.X, c) : v[1] = "str" /\ v[2] # ""
    /\ \A f \in AMENITIES :
         (Req[f] = NoneC \/ InvalidAmenity(f)) => CellsAt(pre.X, f) \subseteq {Unknown}
    /\ (Req.property_type = NoneC \/ _normalize_property_type(Req.property_type) = None)
         => CellsAt(pre.X, "property_type") \subseteq {Unknown}
    /\ (Req.state = NoneC \/ _normalize_state(Req.state) = None)
         => CellsAt(pre.X, "state") \subseteq {Unknown}
    /\ Req.postal_code = NoneC => CellsAt(pre.X, "postal_code") \subseteq {Unknown}
    /\ \A v \in CellsAt(pre.X, "province") :
         v[2] \notin DOMAIN REGION_MAP => CellsAt(pre.X, "region") \subseteq {Unknown}

C19_Witness ==
  /\ Succeeded
  /\ Req.postal_code = NoneC
  /\ InvalidAmenity("garden")
  /\ Req.property_type # NoneC /\ _normalize_property_type(Req.property_type) = None
  /\ CellsAt(pre.X, "postal_code") = {Unknown}
  /\ CellsAt(pre.X, "garden") = {Unknown}
  /\ CellsAt(pre.X, "property_type") = {Unknown}
  /\ CellsAt(pre.X, "state") = {Unknown}

\* The warning about the optional categorical field f, if it draws one.
WarningAbout(f) ==
  IF f \in AMENITIES
    THEN IF InvalidAmenity(f) THEN <<NoteOf(f)>> ELSE <<>>
  ELSE IF f = "property_type"
    THEN IF Req.property_type # NoneC /\ _normalize_property_type(Req.property_type) = None
         THEN <<NoteOf(f)>> ELSE <<>>
  ELSE IF Req.state # NoneC /\ _normalize_state(Req.state) = None
         THEN <<NoteOf(f)>> ELSE <<>>

\* The warnings a successful preprocess produced, in pipeline order.
WarningsInOrder ==
  WarningAbout("garden") \o WarningAbout("terrace") \o WarningAbout("swimming_pool")
    \o WarningAbout("property_type") \o WarningAbout("state")
    \o (IF Req.postal_code = NoneC THEN <<ProvinceOnlyNote>> ELSE <<>>)

RECURSIVE Joined(_)
Joined(ws) ==
  IF Len(ws) = 1 THEN ws[1]
  ELSE ws[1] \o <<" ", "|", " ">> \o Joined(Tail(ws))

\* C20: the warning line of a successful preprocess is its warnings joined
\* with " | " in the order garden, terrace, swimming_pool, property_type,
\* state, postal-code note; it is null exactly when there is no warning, and
\* it is never the empty string.
C20_WarningLineInOrder ==
  Succeeded =>
    /\ pre.warning # <<>>
    /\ pre.warning = NoneC <=> WarningsInOrder = <<>>
    /\ WarningsInOrder # <<>> => pre.warning = Joined(WarningsInOrder)

C20_Witness ==
  /\ Succeeded
  /\ pre.warning =
       Chars("garden invalid; treated as missing. | terrace invalid; treated as missing. | swimming_pool invalid; treated as missing. | property_type not known; treated as missing. | state not known; treated as missing. | postal_code not provided; using province only.")

\* C21: the location checks run in a fixed order and the error reported is
\* that of the first check that fails.  Without a postal code: the province
\* must be recognizable.  With one: its format and range (the 4-digit error,
\* even when the index is empty), then the empty index, then the code absent
\* from the index ("not found", whatever the province sent), then the
\* mismatch with a recognizable province sent; otherwise the call succeeds.
C21_FirstFailingCheck ==
  pre.ran =>
    IF Req.postal_code = NoneC
      THEN IF SentProvince = None THEN pre.exc = Exc("ValueError", MSG_NEED_LOCATION)
           ELSE Succeeded
    ELSE IF ~WellFormedPostal THEN pre.exc = Exc("ValueError", MSG_4DIGITS)
    ELSE IF DOMAIN Index = {} THEN pre.exc = Exc("RuntimeError", MSG_NO_REFERENCE)
    ELSE IF PostalKey \notin DOMAIN Index
      THEN pre.exc = Exc("ValueError", msg_not_found(PostalKey))
    ELSE IF SentProvince # None /\ SentProvince # Index[PostalKey]
      THEN pre.exc = Exc("ValueError", msg_mismatch(PostalKey, Index[PostalKey], SentProvince))
    ELSE Succeeded

\* A malformed postal code on a service whose index is empty.
C21_Witness ==
  /\ pre.ran
  /\ Req.postal_code = Chars("0612")
  /\ DOMAIN Index = {}
  /\ pre.exc = Exc("ValueError", "postal_code must be exactly 4 digits (e.g., 9000).")

\* The model file load_artifacts picks holds a pipeline with a "preprocess"
\* step.
ModelLoadable ==
  IF files.primary.exists THEN files.primary.artifact.has_preprocess
  ELSE files.fallback.exists /\ files.fallback.artifact.has_preprocess

\* A /predict request that passed the schema is being answered.
AnsweredValid == payload # NoPayload /\ resp # NoResponse /\ validate(payload, now).ok

\* C22: with the reference file absent, or with no encoding under which it
\* has both a postal-code and a province column, the startup load still
\* completes: the index is empty and the service is ready.  From then on a
\* request with a postal code fails when it is made, and a request with a
\* recognizable province and no postal code succeeds.
C22_EmptyIndexStillReady ==
  (/\ phase = "up"
   /\ files.ref \in {NoRefFile, RefNoPostcode, RefEmpty}
   /\ ModelLoadable)
  => /\ ready
     /\ startup_error = None
     /\ _pipeline # NoPipeline
     /\ DOMAIN Index = {}
     /\ (AnsweredValid /\ Req.postal_code # NoneC)
          => pre.ran /\ ~Succeeded /\ resp.status \in {400, 500}
     /\ (AnsweredValid /\ Req.postal_code = NoneC /\ SentProvince # None)
          => Succeeded /\ resp.status = 200

C22_Witness ==
  /\ files.ref = RefNoPostcode
  /\ ready
  /\ DOMAIN Index = {}
  /\ AnsweredValid
  /\ Req.postal_code = Chars("9000")
  /\ resp.status = 500

\* The key of the province sent.
ProvinceKey == Str(_norm_key(Req.province))

\* The province column of the frame of a successful preprocess.
ResolvedProvince == CellsAt(pre.X, "province")

\* C23: the province a request is located by normalizes to a canonical
\* label or to nothing: the label of its key in the alias table, else the
\* canonical label with that key, else nothing (and the request fails).  A
\* canonical label normalizes to itself and normalizing twice changes
\* nothing; the key has no blank, hyphen, underscore, period or apostrophe.
C23_ProvinceIsCanonicalOrMissing ==
  (pre.ran /\ Req.postal_code = NoneC /\ Req.province # NoneC) =>
    /\ SentProvince \in ALLOWED_PROVINCES \cup {None}
    /\ \A i \in 1..Len(_norm_key(Req.province)) :
         _norm_key(Req.province)[i] \notin {" ", "\t", "-", "_", ".", "'", "é", "è", "É", "È"}
                                             \cup Range(SubSeq(LowerAlpha, 1, 26))
    /\ SentProvince =
         IF ProvinceKey \in DOMAIN PROVINCE_ALIASES THEN PROVINCE_ALIASES[ProvinceKey]
         ELSE IF \E p \in ALLOWED_PROVINCES : Str(_norm_key(Chars(p))) = ProvinceKey
           THEN CHOOSE p \in ALLOWED_PROVINCES : Str(_norm_key(Chars(p))) = ProvinceKey
         ELSE None
    /\ Str(Req.province) \in ALLOWED_PROVINCES => SentProvince = Str(Req.province)
    /\ SentProvince # None => _normalize_province(Chars(SentProvince)) = SentProvince
    /\ IF SentProvince = None THEN pre.exc = Exc("ValueError", MSG_NEED_LOCATION)
       ELSE ResolvedProvince = {PyStr(SentProvince)}
    /\ Req.province \in {Chars("Bruxelles"), Chars("BRUSSEL")} => SentProvince = "BRUSSEL"

C23_Witness ==
  /\ Succeeded
  /\ Req.province = Chars("Région de Bruxelles-Capitale")
  /\ ProvinceKey = "REGIONDEBRUXELLESCAPITALE"
  /\ ResolvedProvince = {PyStr("BRUSSEL")}

FLANDERS == {"ANTWERPEN", "OOST-VLAANDEREN", "WEST-VLAANDEREN", "LIMBURG", "VLAAMS-BRABANT"}

WALLONIA == {"WAALS-BRABANT", "HENEGOUWEN", "LUIK", "LUXEMBURG", "NAMEN"}

\* The region of a resolved province: one of three labels for a canonical
\* province, missing (filled in as "unknown") for any other string.
RegionOf(province) ==
  IF province \in FLANDERS THEN PyStr("Flanders")
  ELSE IF province \in WALLONIA THEN PyStr("Wallonia")
  ELSE IF province = "BRUSSEL" THEN PyStr("Brussels")
  ELSE Unknown

\* C24: the region of a successful request is fixed by the province it
\* resolved to: Flanders for five canonical provinces, Wallonia for five,
\* Brussels for BRUSSEL, and missing for a resolved province that has no
\* mapping; the table maps the eleven canonical provinces and nothing else.
C24_RegionFromProvince ==
  /\ DOMAIN REGION_MAP = ALLOWED_PROVINCES
  /\ FLANDERS \cup WALLONIA \cup {"BRUSSEL"} = ALLOWED_PROVINCES
  /\ Succeeded =>
       \A p \in CellsAt(pre.X, "province") :
         /\ p[1] = "str"
         /\ CellsAt(pre.X, "region") = {RegionOf(p[2])}

\* A request located by its postal code alone, in Wallonia.
C24_Witness ==
  /\ Succeeded
  /\ Req.province = NoneC
  /\ CellsAt(pre.X, "province") = {PyStr("LUIK")}
  /\ CellsAt(pre.X, "region") = {PyStr("Wallonia")}

\* The age the request's build year gives in the current year.
Age == now - payload.build_year

One == PyNum(1)

\* 1 when the age is present and the condition holds, else missing.
Flag(condition) == IF Age >= 0 /\ condition THEN One ELSE NaN

\* C25: in the frame of a successful preprocess house_age is the current year
\* minus build_year, missing (without an exception) when that is negative;
\* is_new_build, is_recent and is_old are 1 when house_age is present and
\* <= 5, <= 20, >= 50 respectively, and missing otherwise, never 0; so
\* is_new_build = 1 implies is_recent = 1, and is_recent and is_old are not
\* both 1.
C25_AgeAndFlags ==
  /\ (pre.ran /\ _pipeline # NoPipeline /\ SentProvince # None /\ Req.postal_code = NoneC)
       => Succeeded
  /\ Succeeded =>
       /\ CellsAt(pre.X, "house_age") \subseteq {IF Age < 0 THEN NaN ELSE PyNum(Age)}
       /\ CellsAt(pre.X, "is_new_build") \subseteq {Flag(Age <= 5)}
       /\ CellsAt(pre.X, "is_recent") \subseteq {Flag(Age <= 20)}
       /\ CellsAt(pre.X, "is_old") \subseteq {Flag(Age >= 50)}
       /\ \A c \in {"is_new_build", "is_recent", "is_old"} : PyNum(0) \notin CellsAt(pre.X, c)
       /\ One \in CellsAt(pre.X, "is_new_build") => One \in CellsAt(pre.X, "is_recent")
       /\ ~(One \in CellsAt(pre.X, "is_recent") /\ One \in CellsAt(pre.X, "is_old"))

\* A build year in the future: no exception, age and flags missing.
C25_Witness ==
  /\ Succeeded
  /\ payload.build_year = 2027
  /\ now = 2026
  /\ CellsAt(pre.X, "house_age") = {NaN}
  /\ CellsAt(pre.X, "is_new_build") = {NaN}
  /\ CellsAt(pre.X, "is_recent") = {NaN}
  /\ CellsAt(pre.X, "is_old") = {NaN}

\* C26: once the artifact is loaded, no step of the service changes the
\* cached artifact, the expected columns or the postal index, whether the
\* request it serves succeeds or fails; and the request being handled stays
\* as it was received until it is discarded.
C26_CachesAreReadOnly ==
  [][/\ _pipeline # NoPipeline
        => /\ _pipeline' = _pipeline
           /\ _expected_cols' = _expected_cols
           /\ _postal_to_province' = _postal_to_province
     /\ (payload # NoPayload /\ payload' # NoPayload) => payload' = payload]_vars

\* A request has failed inside preprocess and the caches are those of the
\* startup load.
C26_Witness ==
  /\ pre.ran
  /\ pre.exc.type = "ValueError"
  /\ payload.garden = Chars(" YES ")
  /\ _pipeline = ArtifactA
  /\ _expected_cols = ALL_COLUMNS
  /\ DOMAIN _postal_to_province = {"1000", "4000", "9000"}

\* A /predict request, or a /health probe, is being answered.
PredictAnswered == payload # NoPayload /\ resp # NoResponse

HealthAnswered == payload = NoPayload /\ resp # NoResponse

\* The readiness flag and /health in a state: not ready before the startup
\* load has finished; afterwards ready exactly when that load raised
\* nothing, with the exception's text kept otherwise; /health answers 200
\* when ready and 503 with the startup error when not.
ReadinessFollowsStartup ==
  /\ phase = "boot" => ~ready
  /\ phase = "up" =>
       /\ ready <=> ModelLoadable
       /\ ready <=> startup_error = None
       /\ ~ready => startup_error \in {"Missing model.", "'preprocess'"}
  /\ HealthAnswered =>
       IF ready
         THEN resp.status = 200 /\ resp.content.status = "ok" /\ resp.content.ready
       ELSE /\ resp.status = 503
            /\ ~resp.content.ready
            /\ resp.content.error = startup_error
            /\ resp.content.error # None

\* After the startup load the flag and the recorded error never change, and
\* on a service that is not ready no request loads anything.
ReadinessIsFinal ==
  phase = "up" =>
    /\ ready' = ready
    /\ startup_error' = startup_error
    /\ ~ready => /\ _pipeline' = _pipeline
                 /\ _expected_cols' = _expected_cols
                 /\ _postal_to_province' = _postal_to_province

\* C27 (amended): the readiness flag is false until the startup load has
\* finished, true from then on exactly when that load raised nothing, and
\* never changes afterwards; while it is false /health answers 503 with the
\* startup error and every /predict request that passes the schema is
\* answered 503 without the pipeline being invoked or the load retried (a
\* request the schema rejects is answered 422); while it is true /health
\* answers 200.
C27_ReadinessValidGets503 ==
  /\ [](/\ ReadinessFollowsStartup
        /\ (PredictAnswered /\ ~ready) =>
             /\ ~pre.ran
             /\ resp.status = IF validate(payload, now).ok THEN 503 ELSE 422
             /\ resp.status = 503 => resp.error = MSG_NOT_READY)
  /\ [][ReadinessIsFinal]_vars

\* The service is not ready, and /health says so with the startup error.
C27_Witness ==
  /\ phase = "up"
  /\ ~ready
  /\ HealthAnswered
  /\ resp.status = 503
  /\ resp.content.error = "Missing model."

\* C27 (as stated): as above, but while the flag is false every /predict
\* request is answered 503.
C27_ReadinessAllGet503 ==
  /\ [](/\ ReadinessFollowsStartup
        /\ (PredictAnswered /\ ~ready) =>
             /\ ~pre.ran
             /\ resp.status = 503
             /\ resp.error = MSG_NOT_READY)
  /\ [][ReadinessIsFinal]_vars

\* C28 (as stated): after every successful preprocess the province is one of
\* the canonical labels and the region is the one mapped from it, whether the
\* province came from the request or from the postal index; neither is
\* missing or "unknown".
C28_ProvinceAlwaysCanonical ==
  Succeeded =>
    /\ \A p \in CellsAt(pre.X, "province") :
         /\ p[1] = "str"
         /\ p[2] \in ALLOWED_PROVINCES
         /\ CellsAt(pre.X, "region") = {PyStr(REGION_MAP[p[2]])}
    /\ Unknown \notin CellsAt(pre.X, "province") \cup CellsAt(pre.X, "region")

\* load_artifacts has returned to the caller t without raising.
Returned(t) == calls[t].pc \in {"returned", "done"}

\* No call is between its first and its last statement.
NoLoadInProgress == \A t \in Callers : calls[t].pc \in {"idle", "returned", "done", "raised"}

\* C29 (as stated): whenever a call of load_artifacts has returned without
\* raising, and no other call is under way, the cache is complete: the
\* artifact is a loaded pipeline, the column list is the one inferred from
\* it, and the postal reference has been read.  This holds also for a call
\* that follows one that failed part-way.
C29_ReturnMeansComplete ==
  (NoLoadInProgress /\ \E t \in Callers : Returned(t)) =>
    /\ _pipeline # NoPipeline
    /\ _pipeline.has_preprocess
    /\ _expected_cols = _infer_expected_columns(_pipeline)
    /\ _expected_cols # <<>>
    /\ _postal_to_province = _load_postal_lookup(files.ref)

=============================================================================
